---- MODULE Spec2Model ----
(***************************************************************************)
(* A model of the ruruby parser (src/src/parser.rs): the LvarCollector,    *)
(* the scope stack (context_stack) and the recursive-descent parse         *)
(* functions, each translated as an operator that threads the parser       *)
(* state p and returns a result record; and of Inst::inst_size             *)
(* (src/src/vm/vm_inst.rs) and the builtins of Range and Enumerator        *)
(* (src/src/builtin), each an operator that threads the VM.                *)
(*                                                                         *)
(* Conventions.                                                            *)
(*   - A parser state p is a record                                        *)
(*       [tokens, cursor, prev_cursor, context_stack, ident_table,         *)
(*        state_save, state_log]                                           *)
(*     with cursor and prev_cursor 0-based as in the source; state_log is  *)
(*     a history of the calls of save_state, restore_state and             *)
(*     discard_state, which no parse function reads.                       *)
(*   - Result<Node, RubyError> is [ok |-> TRUE, node, p] or                *)
(*     [ok |-> FALSE, err, msg, p]; err is "SyntaxError", "UnexpectedEOF"  *)
(*     or "Panic" (unreachable!() / unwrap() on None).                     *)
(*   - Source locations (Loc) annotate nodes and errors only and are left  *)
(*     out.                                                                *)
(***************************************************************************)
EXTENDS Integers, Sequences, FiniteSets, TLC

VARIABLES
    context_stack,  \* Spec: Parser.context_stack while a program is parsed
    pc,             \* the position of the run ("scope", "error", "parse", ...)
    last,           \* the last operation, its arguments and what it returned
    collector,      \* LvarSpec: one LvarCollector
    source,         \* ParseSpec: the program text, as the structure it was written from
    tokens,         \* ParseSpec: the token vector the lexer hands to the parser
    result,         \* ParseSpec: what parse_program returned; VmSpec: the VMResult
    vm              \* VmSpec: the VM (value stack, log of block invocations)

vars == <<context_stack, pc, last, collector, source, tokens, result, vm>>

(***************************************************************************)
(* Tokens (TokenKind).                                                     *)
(***************************************************************************)
Ident(name) == [k |-> "Ident", v |-> name, s |-> FALSE]

IdentSuffix(name) == [k |-> "Ident", v |-> name, s |-> TRUE]

Const(name) == [k |-> "Const", v |-> name]

InstanceVar(name) == [k |-> "InstanceVar", v |-> name]

GlobalVar(name) == [k |-> "GlobalVar", v |-> name]

NumLit(n) == [k |-> "NumLit", v |-> n]

FloatLit(n) == [k |-> "FloatLit", v |-> n]

StringLit(str) == [k |-> "StringLit", v |-> str]

OpenDoubleQuote(str) == [k |-> "OpenDoubleQuote", v |-> str]

IntermediateDoubleQuote(str) == [k |-> "IntermediateDoubleQuote", v |-> str]

CloseDoubleQuote(str) == [k |-> "CloseDoubleQuote", v |-> str]

Reserved(r) == [k |-> "Reserved", v |-> r]

Punct(q) == [k |-> "Punct", v |-> q]

\* Punct::AssignOp(op), a compound assignment `OP=`.
AssignOp(op) == [k |-> "Punct", v |-> "AssignOp", op |-> op]

LineTerm == [k |-> "LineTerm", v |-> ""]

EOF == [k |-> "EOF", v |-> ""]

IsPunct(tok, q) == tok.k = "Punct" /\ tok.v = q

IsReserved(tok, r) == tok.k = "Reserved" /\ tok.v = r

is_line_term(tok) == tok.k = "LineTerm"

is_eof(tok) == tok.k = "EOF"

is_term(tok) == tok.k = "LineTerm" \/ tok.k = "EOF" \/ IsPunct(tok, "Semi")

check_stmt_end(tok) ==
    \/ tok.k \in {"EOF", "IntermediateDoubleQuote", "CloseDoubleQuote"}
    \/ tok.k = "Reserved" /\ tok.v \in {"Else", "Elsif", "End", "When"}
    \/ tok.k = "Punct" /\ tok.v \in {"RParen", "RBrace", "RBracket"}

can_be_symbol(tok) ==
    tok.k \in {"Ident", "Const", "InstanceVar", "StringLit", "Reserved"}

(***************************************************************************)
(* LvarCollector: id is the counter, table the map IdentId -> LvarId       *)
(* (a function on the set of its keys), block the block parameter          *)
(* (None is -1).                                                           *)
(***************************************************************************)
None == -1

LvarCollector_new == [id |-> 0, table |-> << >>, block |-> None]

contains_key(table, val) == val \in DOMAIN table

\* HashMap::insert: adds the key or REPLACES the value of a key it holds.
HashMap_insert(table, key, value) ==
    [x \in (DOMAIN table) \cup {key} |-> IF x = key THEN value ELSE table[x]]
\* insert without its contains_key test: a held key is given a new LvarId.
insert_remap(lvar, val) ==
    [lvar |-> [lvar EXCEPT !.table = HashMap_insert(lvar.table, val, lvar.id),
                           !.id = lvar.id + 1],
     ret |-> lvar.id]

\* LvarCollector::insert; returns [lvar, ret] (the collector and the LvarId).
insert(lvar, val) ==
    IF contains_key(lvar.table, val)
    THEN [lvar |-> lvar, ret |-> lvar.table[val]]
    ELSE [lvar |-> [lvar EXCEPT !.table = HashMap_insert(lvar.table, val, lvar.id),
                                !.id = lvar.id + 1],
          ret |-> lvar.id]
\* insert_new that takes a held key for a new one (it never returns Err).
insert_new_unchecked(lvar, val) ==
    [lvar |-> [lvar EXCEPT !.table = HashMap_insert(lvar.table, val, lvar.id),
                           !.id = lvar.id + 1],
     is_err |-> FALSE, ret |-> lvar.id]

\* LvarCollector::insert_new; returns [lvar, is_err, ret]. The table insert
\* happens before the duplicate test, as in the source.
insert_new(lvar, val) ==
    LET id == lvar.id
        inserted == [lvar EXCEPT !.table = HashMap_insert(lvar.table, val, id)]
    IN  IF contains_key(lvar.table, val)
        THEN [lvar |-> inserted, is_err |-> TRUE, ret |-> None]
        ELSE [lvar |-> [inserted EXCEPT !.id = id + 1], is_err |-> FALSE, ret |-> id]

\* LvarCollector::insert_block_param
insert_block_param(lvar, val) ==
    LET r == insert_new(lvar, val)
    IN  IF r.is_err THEN r
        ELSE [r EXCEPT !.lvar = [r.lvar EXCEPT !.block = r.ret]]

LvarCollector_len(lvar) == Cardinality(DOMAIN lvar.table)

(***************************************************************************)
(* Context and the scope stack.                                            *)
(***************************************************************************)
Context_new_method == [lvar |-> LvarCollector_new, kind |-> "Method"]

\* Option<LvarCollector>: << >> is None and <<c>> is Some(c).
NoCollector == << >>

SomeCollector(c) == <<c>>

\* Context::new_class that never takes the collector handed in.
Context_new_class_fresh(lvar_collector) ==
    [lvar |-> LvarCollector_new, kind |-> "Class"]

Context_new_class(lvar_collector) ==
    [lvar |-> IF lvar_collector = NoCollector THEN LvarCollector_new
              ELSE lvar_collector[1],
     kind |-> "Class"]

Context_new_block == [lvar |-> LvarCollector_new, kind |-> "Block"]

\* Vec::push / Vec::pop on context_stack (the last element is the current frame).
\* A pop that leaves the frame where it is.
pop_context_kept(stack) == stack

push_context(stack, context) == Append(stack, context)

pop_context(stack) == SubSeq(stack, 1, Len(stack) - 1)

context_last(stack) == stack[Len(stack)]

\* The loop of Parser::is_local_var, started at its i-th iteration.
RECURSIVE is_local_var_from(_, _, _)
is_local_var_from(stack, id, i) ==
    LET len == Len(stack)
    IN  IF i >= len THEN FALSE
        ELSE LET context == stack[len - i]     \* context_stack[len - 1 - i], 0-based
             IN  IF contains_key(context.lvar.table, id) THEN TRUE
                 ELSE IF context.kind # "Block" THEN FALSE
                 ELSE is_local_var_from(stack, id, i + 1)
\* is_local_var that does not stop at a Method or Class frame.
is_local_var_anywhere(stack, id) ==
    \E i \in 1..Len(stack) : contains_key(stack[i].lvar.table, id)

is_local_var(stack, id) == is_local_var_from(stack, id, 0)
\* add_local_var_if_new without its effect: no identifier becomes a local.
add_local_var_never(stack, id) == stack

\* add_local_var_if_new that declares the local in the outermost frame.
add_local_var_outermost(stack, id) ==
    IF ~is_local_var(stack, id)
    THEN [stack EXCEPT ![1].lvar = insert(@, id).lvar]
    ELSE stack

\* Parser::add_local_var_if_new on the stack.
add_local_var_if_new(stack, id) ==
    IF ~is_local_var(stack, id)
    THEN [stack EXCEPT ![Len(stack)].lvar = insert(@, id).lvar]
    ELSE stack

\* Parser::new_param on the stack; [stack, is_err].
new_param(stack, id) ==
    LET res == insert_new(context_last(stack).lvar, id)
    IN  [stack |-> [stack EXCEPT ![Len(stack)].lvar = res.lvar], is_err |-> res.is_err]

\* Parser::new_block_param on the stack; [stack, is_err].
new_block_param(stack, id) ==
    LET res == insert_block_param(context_last(stack).lvar, id)
    IN  [stack |-> [stack EXCEPT ![Len(stack)].lvar = res.lvar], is_err |-> res.is_err]

(***************************************************************************)
(* The parser state and its results.                                       *)
(***************************************************************************)
\* Parser::new with the token vector of the lexer (an external collaborator).
Parser_new(toks) ==
    [tokens |-> toks, cursor |-> 0, prev_cursor |-> 0, context_stack |-> << >>,
     ident_table |-> << >>, state_save |-> << >>, state_log |-> << >>]

Ok(node, p) == [ok |-> TRUE, node |-> node, p |-> p]

Err(kind, msg, p) == [ok |-> FALSE, err |-> kind, msg |-> msg, p |-> p]

error_unexpected(p, msg) == Err("SyntaxError", msg, p)

error_eof(p) == Err("UnexpectedEOF", "", p)

\* unreachable!() and Option::unwrap() on None abort the parse.
panic(p, msg) == Err("Panic", msg, p)

\* IdentifierTable::get_ident_id: interns name; ids are positions in the
\* table, from 1 upward (id 0 is reserved).  Returns [id, p].
IdentIndex(table, name) == CHOOSE i \in 1..Len(table) : table[i] = name

get_ident_id(p, name) ==
    IF \E i \in 1..Len(p.ident_table) : p.ident_table[i] = name
    THEN [id |-> IdentIndex(p.ident_table, name), p |-> p]
    ELSE [id |-> Len(p.ident_table) + 1,
          p |-> [p EXCEPT !.ident_table = Append(@, name)]]

\* The entry of state_log for the call op that leaves the parser as q: the
\* cursors and the depth of state_save after the call.
Logged(q, op) ==
    [q EXCEPT !.state_log =
        Append(@, [op |-> op, cursor |-> q.cursor, prev_cursor |-> q.prev_cursor,
                   depth |-> Len(q.state_save)])]

\* discard_state that leaves the saved state on the stack.
discard_state_kept(p) == Logged(p, "discard")

save_state(p) ==
    Logged([p EXCEPT !.state_save = Append(@, <<p.cursor, p.prev_cursor>>)], "save")

restore_state(p) ==
    LET state == p.state_save[Len(p.state_save)]
    IN  Logged([p EXCEPT !.state_save = SubSeq(@, 1, Len(@) - 1),
                         !.cursor = state[1], !.prev_cursor = state[2]], "restore")

discard_state(p) ==
    Logged([p EXCEPT !.state_save = SubSeq(@, 1, Len(@) - 1)], "discard")

get_context_depth(p) == Len(p.context_stack)

TokAt(p, c) == p.tokens[c + 1]

\* Parser::peek: the next token, line terminators skipped.
RECURSIVE peek_from(_, _)
peek_from(p, c) ==
    LET tok == TokAt(p, c)
    IN  IF is_eof(tok) \/ ~is_line_term(tok) THEN tok ELSE peek_from(p, c + 1)

peek(p) == peek_from(p, p.cursor)

peek_no_term(p) == TokAt(p, p.cursor)

p_is_line_term(p) == is_line_term(peek_no_term(p))

\* Parser::get: [ok, tok, p]; not ok at EOF.
RECURSIVE get(_)
get(p) ==
    LET token == TokAt(p, p.cursor)
    IN  IF is_eof(token) THEN [ok |-> FALSE, tok |-> token, p |-> p]
        ELSE LET q == [p EXCEPT !.prev_cursor = p.cursor, !.cursor = p.cursor + 1]
             IN  IF ~is_line_term(token) THEN [ok |-> TRUE, tok |-> token, p |-> q]
                 ELSE get(q)

\* Parser::get_no_skip_line_term: [tok, p]
get_no_skip_line_term(p) ==
    LET token == TokAt(p, p.cursor)
    IN  IF ~is_eof(token)
        THEN [tok |-> token,
              p |-> [p EXCEPT !.prev_cursor = p.cursor, !.cursor = p.cursor + 1]]
        ELSE [tok |-> token, p |-> p]

\* The consume_* methods return [hit, p].
consume_punct(p, expect) ==
    IF IsPunct(peek(p), expect) THEN [hit |-> TRUE, p |-> get(p).p]
    ELSE [hit |-> FALSE, p |-> p]

consume_punct_no_term(p, expect) ==
    IF IsPunct(peek_no_term(p), expect) THEN [hit |-> TRUE, p |-> get(p).p]
    ELSE [hit |-> FALSE, p |-> p]

consume_reserved(p, expect) ==
    IF IsReserved(peek(p), expect) THEN [hit |-> TRUE, p |-> get(p).p]
    ELSE [hit |-> FALSE, p |-> p]

consume_reserved_no_skip_line_term(p, expect) ==
    IF IsReserved(peek_no_term(p), expect) THEN [hit |-> TRUE, p |-> get(p).p]
    ELSE [hit |-> FALSE, p |-> p]

\* The while loop of Parser::consume_term.
RECURSIVE consume_term_loop(_)
consume_term_loop(p) ==
    IF is_term(peek_no_term(p))
    THEN LET g == get_no_skip_line_term(p)
         IN  IF is_eof(g.tok) THEN g.p ELSE consume_term_loop(g.p)
    ELSE p

consume_term(p) ==
    IF ~is_term(peek_no_term(p)) THEN [hit |-> FALSE, p |-> p]
    ELSE [hit |-> TRUE, p |-> consume_term_loop(p)]

\* The expect_* methods return a result whose node is irrelevant (Unit).
Unit == [kind |-> "Unit"]

expect_reserved(p, expect) ==
    LET g == get(p)
    IN  IF ~g.ok THEN error_eof(g.p)
        ELSE IF IsReserved(g.tok, expect) THEN Ok(Unit, g.p)
        ELSE error_unexpected(g.p, "Expect reserved")

expect_punct(p, expect) ==
    LET g == get(p)
    IN  IF ~g.ok THEN error_eof(g.p)
        ELSE IF IsPunct(g.tok, expect) THEN Ok(Unit, g.p)
        ELSE error_unexpected(g.p, "Expect punct")

\* expect_ident / expect_const: the result's node is the IdentId.
expect_ident(p) ==
    LET g == get(p)
    IN  IF ~g.ok THEN error_eof(g.p)
        ELSE IF g.tok.k = "Ident"
             THEN LET i == get_ident_id(g.p, g.tok.v) IN Ok(i.id, i.p)
        ELSE error_unexpected(g.p, "Expect identifier.")

expect_const(p) ==
    LET g == get(p)
    IN  IF ~g.ok THEN error_eof(g.p)
        ELSE IF g.tok.k = "Const"
             THEN LET i == get_ident_id(g.p, g.tok.v) IN Ok(i.id, i.p)
        ELSE error_unexpected(g.p, "Expect constant.")

(***************************************************************************)
(* AST nodes (NodeKind) and the Node predicates the parser uses.           *)
(***************************************************************************)
new_comp_stmt(nodes) == [kind |-> "CompStmt", nodes |-> nodes]

new_integer(num) == [kind |-> "Integer", num |-> num]

new_float(num) == [kind |-> "Float", num |-> num]

new_string(str) == [kind |-> "String", str |-> str]

new_interporated_string(nodes) == [kind |-> "InterporatedString", nodes |-> nodes]

new_symbol(id) == [kind |-> "Symbol", id |-> id]

new_bool(b) == [kind |-> "Bool", b |-> b]

new_nil == [kind |-> "Nil"]

new_self == [kind |-> "SelfValue"]

new_identifier(id, has_suffix) == [kind |-> "Ident", id |-> id, has_suffix |-> has_suffix]

new_lvar(id) == [kind |-> "LocalVar", id |-> id]

new_instance_var(id) == [kind |-> "InstanceVar", id |-> id]

new_global_var(id) == [kind |-> "GlobalVar", id |-> id]

new_const(id, toplevel) == [kind |-> "Const", id |-> id, toplevel |-> toplevel]

new_scope(parent, id) == [kind |-> "Scope", parent |-> parent, id |-> id]

new_array(nodes) == [kind |-> "Array", nodes |-> nodes]

new_hash(kvp) == [kind |-> "Hash", kvp |-> kvp]

new_range(start, end, exclude_end) ==
    [kind |-> "Range", start |-> start, end |-> end, exclude_end |-> exclude_end]

new_binop(op, lhs, rhs) == [kind |-> "BinOp", op |-> op, lhs |-> lhs, rhs |-> rhs]

new_unop(op, lhs) == [kind |-> "UnOp", op |-> op, lhs |-> lhs]

new_array_member(array, index) ==
    [kind |-> "ArrayMember", array |-> array, index |-> index]

new_splat(array) == [kind |-> "Splat", array |-> array]

new_mul_assign(mlhs, mrhs) == [kind |-> "MulAssign", mlhs |-> mlhs, mrhs |-> mrhs]

new_send(receiver, method, args, kw_args, block, completed) ==
    [kind |-> "Send", receiver |-> receiver, method |-> method, args |-> args,
     kw_args |-> kw_args, block |-> block, completed |-> completed]

new_if(cond, then_, else_) ==
    [kind |-> "If", cond |-> cond, then_ |-> then_, else_ |-> else_]

new_while(cond, body) == [kind |-> "While", cond |-> cond, body |-> body]

new_for(param, iter, body) ==
    [kind |-> "For", param |-> param, iter |-> iter, body |-> body]

new_case(cond, when_, else_) ==
    [kind |-> "Case", cond |-> cond, when_ |-> when_, else_ |-> else_]

CaseBranch_new(when, body) == [when |-> when, body |-> body]

new_break == [kind |-> "Break"]

new_next == [kind |-> "Next"]

new_return(val) == [kind |-> "Return", val |-> val]

new_param_node(id) == [kind |-> "Param", id |-> id]

new_optional_param(id, default) ==
    [kind |-> "OptionalParam", id |-> id, default |-> default]

new_splat_param(id) == [kind |-> "RestParam", id |-> id]

new_post_param(id) == [kind |-> "PostParam", id |-> id]

new_keyword_param(id, default) ==
    [kind |-> "KeywordParam", id |-> id, default |-> default]

new_block_param_node(id) == [kind |-> "BlockParam", id |-> id]

new_proc(params, body, lvar) ==
    [kind |-> "Proc", params |-> params, body |-> body, lvar |-> lvar]

new_method_decl(id, params, body, lvar) ==
    [kind |-> "MethodDecl", id |-> id, params |-> params, body |-> body, lvar |-> lvar]

new_class_method_decl(id, params, body, lvar) ==
    [kind |-> "ClassMethodDecl", id |-> id, params |-> params, body |-> body,
     lvar |-> lvar]

new_class_decl(id, superclass, body, lvar, is_module) ==
    [kind |-> "ClassDecl", id |-> id, superclass |-> superclass, body |-> body,
     lvar |-> lvar, is_module |-> is_module]

\* No block (Option<Box<Node>>::None).
NoBlock == [kind |-> "None"]

\* Node::is_operation: a suffix-free identifier that is not a local.
is_operation(node) == node.kind = "Ident" /\ ~node.has_suffix

\* Node::as_method_name (None when the node names no method).
as_method_name(node) ==
    IF node.kind \in {"Ident", "LocalVar", "Const"} THEN node.id ELSE None

(***************************************************************************)
(* The parse functions.  A loop of the source is a RECURSIVE operator      *)
(* named after its function, with the loop's variables as parameters.      *)
(***************************************************************************)
RECURSIVE parse_comp_stmt(_), parse_comp_stmt_loop(_, _), parse_comp_stmt_next(_, _),
          parse_stmt_loop(_), parse_stmt(_), parse_mul_assign(_, _),
          parse_mul_assign_loop(_, _, _), parse_command(_, _), parse_arglist(_),
          parse_binop_loop(_, _, _, _), Ascend(_, _, _), Parse(_, _),
          parse_function_rest(_), parse_function_loop(_, _), parse_args(_, _, _),
          parse_args_loop(_, _, _, _, _), parse_block_params(_, _), parse_block(_),
          parse_lambda_params(_, _), parse_case_loop(_, _), parse_return_loop(_, _),
          parse_interporated_string_literal(_, _),
          parse_interporated_string_literal_loop(_, _), parse_hash_literal(_),
          parse_hash_literal_loop(_, _), parse_if_then(_), parse_unless(_),
          parse_primary(_), parse_def(_), parse_params_loop(_, _, _),
          parse_params(_), parse_class(_, _), Call(_, _)

\* The methods from parse_stmt down to parse_primary, innermost first.  But
\* for a leading `-`, `~` or `!`, each of them starts by calling the one
\* before it at the same token and goes on with what that call returns.
Chain ==
    <<"parse_primary", "parse_function", "parse_unary", "parse_exponent",
      "parse_unary_minus", "parse_arg_mul", "parse_arg_add", "parse_arg_shift",
      "parse_arg_bitand", "parse_arg_bitor", "parse_arg_comp", "parse_arg_eq",
      "parse_arg_logical_and", "parse_arg_logical_or", "parse_arg_range",
      "parse_arg_ternary", "parse_arg_assign", "parse_arg", "parse_expr",
      "parse_stmt">>

Level(fn) == CHOOSE i \in DOMAIN Chain : Chain[i] = fn

\* self.fn(a[1], ...): the call of a parse method, by its name.
Call(fn, a) ==
    CASE fn \in {Chain[i] : i \in DOMAIN Chain} -> Parse(fn, a[1])
      [] fn = "parse_comp_stmt" -> parse_comp_stmt(a[1])
      [] fn = "parse_mul_assign" -> parse_mul_assign(a[1], a[2])
      [] fn = "parse_command" -> parse_command(a[1], a[2])
      [] fn = "parse_arglist" -> parse_arglist(a[1])
      [] fn = "parse_args" -> parse_args(a[1], a[2], a[3])
      [] fn = "parse_block" -> parse_block(a[1])
      [] fn = "parse_interporated_string_literal" ->
            parse_interporated_string_literal(a[1], a[2])
      [] fn = "parse_hash_literal" -> parse_hash_literal(a[1])
      [] fn = "parse_if_then" -> parse_if_then(a[1])
      [] fn = "parse_unless" -> parse_unless(a[1])
      [] fn = "parse_def" -> parse_def(a[1])
      [] fn = "parse_params" -> parse_params(a[1])
      [] fn = "parse_class" -> parse_class(a[1], a[2])

\* The first binary operator of ops (a sequence of <<Punct, BinOp>>) that the
\* next token is, or None: the else-if chain of consume_punct_no_term calls.
FirstOp(p, ops) ==
    LET tok == peek_no_term(p)
        hits == {i \in DOMAIN ops : IsPunct(tok, ops[i][1])}
    IN  IF hits = {} THEN None ELSE CHOOSE i \in hits : \A j \in hits : i <= j

is_command(p) ==
    LET tok == peek_no_term(p)
    IN  \/ tok.k \in {"Ident", "InstanceVar", "Const", "NumLit", "FloatLit",
                      "StringLit", "OpenDoubleQuote"}
        \/ tok.k = "Punct" /\ tok.v \in {"LParen", "LBracket", "LBrace", "Colon",
                                         "Scope", "Plus", "Minus", "Arrow"}
        \/ tok.k = "Reserved" /\ tok.v \in {"False", "Nil", "True"}

\* `?`: the error r is returned, or K continues with the result r.
Try(r, K(_)) == IF r.ok THEN K(r) ELSE r

parse_comp_stmt(p) == parse_comp_stmt_loop(p, << >>)

parse_comp_stmt_loop(p, nodes) ==
    IF check_stmt_end(peek(p)) THEN Ok(new_comp_stmt(nodes), p)
    ELSE parse_comp_stmt_next(parse_stmt(p), nodes)

\* The rest of an iteration of parse_comp_stmt, node the statement parsed.
parse_comp_stmt_next(node, nodes) ==
    IF node.ok
    THEN LET t == consume_term(node.p)
         IN  IF ~t.hit THEN Ok(new_comp_stmt(Append(nodes, node.node)), t.p)
             ELSE parse_comp_stmt_loop(t.p, Append(nodes, node.node))
    ELSE node

\* The statement modifier kw (if, unless, while, until) with its condition.
parse_stmt_modifier(kw, cond, node) ==
    IF ~cond.ok THEN cond
    ELSE Ok(CASE kw = "If" -> new_if(cond.node, node, new_comp_stmt(<< >>))
              [] kw = "Unless" -> new_if(cond.node, new_comp_stmt(<< >>), node)
              [] kw = "While" -> new_while(cond.node, node)
              [] kw = "Until" -> new_while(new_unop("Not", cond.node), node),
            cond.p)

\* parse_stmt after its first parse_expr: the statement modifiers.
parse_stmt_loop(node) ==
    IF node.ok
    THEN LET tok == peek_no_term(node.p)
         IN  IF tok.k = "Reserved" /\ tok.v \in {"If", "Unless", "While", "Until"}
             THEN parse_stmt_loop(parse_stmt_modifier(tok.v,
                                      Call("parse_expr", <<get(node.p).p>>), node.node))
             ELSE node
    ELSE node

parse_stmt(p) == Parse("parse_stmt", p)

\* parse_expr after its first parse_arg.
parse_expr_rest(r) ==
    IF r.ok
    THEN LET node == r.node
             c == consume_punct_no_term(r.p, "Comma")
         IN  IF c.hit THEN Call("parse_mul_assign", <<c.p, node>>)
             ELSE IF is_operation(node) /\ is_command(c.p)
             THEN Call("parse_command", <<c.p, as_method_name(node)>>)
             ELSE IF node.kind = "Send" /\ ~node.completed
             THEN Try(IF is_command(c.p) THEN Call("parse_arglist", <<c.p>>)
                      ELSE Ok([args |-> node.args, kw_args |-> << >>], c.p),
                      LAMBDA a :
                  Try(Call("parse_block", <<a.p>>), LAMBDA b :
                  Ok(new_send(node.receiver, node.method, a.node.args, a.node.kw_args,
                              b.node, TRUE), b.p)))
             ELSE Ok(node, c.p)
    ELSE r

\* The Ident test of parse_mul_assign: [is_err, new_lvars].
mul_assign_lhs(node, new_lvars) ==
    IF node.kind = "Ident"
    THEN IF node.has_suffix THEN [is_err |-> TRUE, new_lvars |-> new_lvars]
         ELSE [is_err |-> FALSE, new_lvars |-> Append(new_lvars, node.id)]
    ELSE [is_err |-> FALSE, new_lvars |-> new_lvars]

\* The `for lvar in new_lvars` loop of parse_mul_assign.
RECURSIVE add_local_vars(_, _, _)
add_local_vars(stack, new_lvars, i) ==
    IF i > Len(new_lvars) THEN stack
    ELSE add_local_vars(add_local_var_if_new(stack, new_lvars[i]), new_lvars, i + 1)

\* The part of parse_mul_assign after its loop.
parse_mul_assign_rhs(p, mlhs, new_lvars) ==
    LET c == consume_punct_no_term(p, "Assign")
    IN  IF ~c.hit THEN error_unexpected(c.p, "Expected '='.")
        ELSE Try(Call("parse_args", <<c.p, FALSE, "Arrow">>), LAMBDA a :
             Ok(new_mul_assign(mlhs, a.node.args),
                [a.p EXCEPT !.context_stack =
                     add_local_vars(a.p.context_stack, new_lvars, 1)]))

parse_mul_assign(p, node) ==
    LET l == mul_assign_lhs(node, << >>)
    IN  IF l.is_err THEN error_unexpected(p, "Illegal identifier for left hand.")
        ELSE parse_mul_assign_loop(p, <<node>>, l.new_lvars)

parse_mul_assign_loop(p, mlhs, new_lvars) ==
    IF IsPunct(peek_no_term(p), "Assign") THEN parse_mul_assign_rhs(p, mlhs, new_lvars)
    ELSE Try(Call("parse_function", <<p>>), LAMBDA r :
         LET l == mul_assign_lhs(r.node, new_lvars)
             c == consume_punct_no_term(r.p, "Comma")
         IN  IF l.is_err
             THEN error_unexpected(r.p, "Illegal identifier for left hand.")
             ELSE IF ~c.hit
             THEN parse_mul_assign_rhs(c.p, Append(mlhs, r.node), l.new_lvars)
             ELSE parse_mul_assign_loop(c.p, Append(mlhs, r.node), l.new_lvars))

parse_command(p, operation) ==
    Try(Call("parse_arglist", <<p>>), LAMBDA a :
    Try(Call("parse_block", <<a.p>>), LAMBDA b :
    Ok(new_send(new_self, operation, a.node.args, a.node.kw_args, b.node, TRUE), b.p)))

\* The result's node is [args, kw_args].
parse_arglist(p) ==
    Try(Call("parse_arg", <<p>>), LAMBDA f :
    IF is_operation(f.node) /\ is_command(f.p)
    THEN Try(Call("parse_command", <<f.p, as_method_name(f.node)>>), LAMBDA c :
         Ok([args |-> <<c.node>>, kw_args |-> << >>], c.p))
    ELSE LET c == consume_punct(f.p, "Comma")
         IN  IF c.hit
             THEN Try(Call("parse_args", <<c.p, FALSE, "Arrow">>), LAMBDA res :
                  Ok([args |-> <<f.node>> \o res.node.args,
                      kw_args |-> res.node.kw_args], res.p))
             ELSE Ok([args |-> <<f.node>>, kw_args |-> << >>], c.p))

\* Parser::check_lhs: a result whose p holds the new scope stack.
check_lhs(p, lhs) ==
    IF lhs.kind = "Ident"
    THEN IF lhs.has_suffix
         THEN error_unexpected(p, "Illegal identifier for left hand.")
         ELSE Ok(Unit, [p EXCEPT !.context_stack = add_local_var_if_new(@, lhs.id)])
    ELSE Ok(Unit, p)

\* parse_arg_assign after its left-hand side r.
\* parse_arg_assign that declares the left-hand side before it parses the
\* right-hand side.
parse_arg_assign_lhs_first(r) ==
    IF r.ok /\ ~p_is_line_term(r.p) /\ consume_punct_no_term(r.p, "Assign").hit
    THEN Try(check_lhs(consume_punct_no_term(r.p, "Assign").p, r.node), LAMBDA k :
         Try(Call("parse_args", <<k.p, FALSE, "Arrow">>), LAMBDA a :
         Ok(new_mul_assign(<<r.node>>, a.node.args), a.p)))
    ELSE r

parse_arg_assign_rest(r) ==
    IF r.ok
    THEN IF p_is_line_term(r.p) THEN r
         ELSE LET lhs == r.node
                  c == consume_punct_no_term(r.p, "Assign")
                  tok == peek_no_term(r.p)
              IN  IF c.hit
                  THEN Try(Call("parse_args", <<c.p, FALSE, "Arrow">>), LAMBDA a :
                       Try(check_lhs(a.p, lhs), LAMBDA k :
                       Ok(new_mul_assign(<<lhs>>, a.node.args), k.p)))
                  ELSE IF IsPunct(tok, "AssignOp")
                  THEN Try(Call("parse_arg", <<get(r.p).p>>), LAMBDA rhs :
                       Try(check_lhs(rhs.p, lhs), LAMBDA k :
                       LET lv == IF lhs.kind = "Ident" THEN new_lvar(lhs.id) ELSE lhs
                       IN  IF tok.op = "LOr"
                           THEN Ok(new_binop("LOr", lv,
                                     new_mul_assign(<<lv>>, <<rhs.node>>)), k.p)
                           ELSE Ok(new_mul_assign(<<lhs>>,
                                     <<new_binop(tok.op, lhs, rhs.node)>>), k.p)))
                  ELSE r
    ELSE r

\* parse_arg_ternary after its condition.
parse_arg_ternary_rest(cond) ==
    IF cond.ok
    THEN LET q == consume_punct_no_term(cond.p, "Question")
         IN  IF ~q.hit THEN cond
             ELSE Try(Call("parse_arg", <<q.p>>), LAMBDA then_ :
                  LET c == consume_punct_no_term(then_.p, "Colon")
                  IN  IF ~c.hit THEN error_unexpected(c.p, "Expect ':'.")
                      ELSE Try(Call("parse_arg", <<c.p>>), LAMBDA else_ :
                           Ok(new_if(cond.node, then_.node, else_.node), else_.p)))
    ELSE cond

\* parse_arg_range after its left-hand side.
parse_arg_range_rest(lhs) ==
    IF lhs.ok
    THEN IF p_is_line_term(lhs.p) THEN lhs
         ELSE LET r2 == consume_punct(lhs.p, "Range2")
                  r3 == consume_punct(lhs.p, "Range3")
              IN  IF r2.hit \/ r3.hit
                  THEN Try(Call("parse_arg_logical_or",
                                <<IF r2.hit THEN r2.p ELSE r3.p>>), LAMBDA rhs :
                       Ok(new_range(lhs.node, rhs.node, ~r2.hit), rhs.p))
                  ELSE lhs
    ELSE lhs

\* lhs OP rhs, the node of a binary operator (the error of rhs otherwise).
BinOp(op, lhs, rhs) ==
    IF ~rhs.ok THEN rhs ELSE Ok(new_binop(op, lhs.node, rhs.node), rhs.p)

\* The loop `lhs = binop(lhs, next()) while an operator of ops follows' of a
\* binary-operator level: lhs is the result so far, next the name of the
\* next level, no_term the test for a line terminator after the first operand.
parse_binop_loop(lhs, ops, next, no_term) ==
    IF lhs.ok
    THEN IF no_term /\ p_is_line_term(lhs.p) THEN lhs
         ELSE LET i == FirstOp(lhs.p, ops)
              IN  IF i = None THEN lhs
                  ELSE parse_binop_loop(
                           BinOp(ops[i][2], lhs, Call(next, <<get(lhs.p).p>>)),
                           ops, next, FALSE)
    ELSE lhs

LOrOps == << <<"LOr", "LOr">> >>

LAndOps == << <<"LAnd", "LAnd">> >>

EqOps == << <<"Eq", "Eq">>, <<"Ne", "Ne">>, <<"TEq", "TEq">> >>

\* parse_arg_eq that takes equality operators as long as there are any.
parse_arg_eq_chained(lhs) == parse_binop_loop(lhs, EqOps, "parse_arg_comp", FALSE)

\* parse_arg_eq after its left-hand side: one operator at most.
parse_arg_eq_rest(lhs) ==
    IF lhs.ok
    THEN LET i == FirstOp(lhs.p, EqOps)
         IN  IF i = None THEN lhs
             ELSE BinOp(EqOps[i][2], lhs, Call("parse_arg_comp", <<get(lhs.p).p>>))
    ELSE lhs

CompOps == << <<"Ge", "Ge">>, <<"Gt", "Gt">>, <<"Le", "Le">>, <<"Lt", "Lt">> >>

BitorOps == << <<"BitOr", "BitOr">>, <<"BitXor", "BitXor">> >>

BitandOps == << <<"BitAnd", "BitAnd">> >>

ShiftOps == << <<"Shl", "Shl">>, <<"Shr", "Shr">> >>

AddOps == << <<"Plus", "Add">>, <<"Minus", "Sub">> >>

MulOps == << <<"Mul", "Mul">>, <<"Div", "Div">>, <<"Rem", "Rem">> >>

\* parse_unary_minus after a `-`, c the result of its consume_punct.
parse_unary_minus_rest(c) ==
    IF peek(c.p).k \in {"NumLit", "FloatLit"}
    THEN Call("parse_exponent", <<restore_state(c.p)>>)
    ELSE Try(Call("parse_unary_minus", <<discard_state(c.p)>>), LAMBDA lhs :
         Ok(new_binop("Mul", lhs.node, new_integer(-1)), lhs.p))

\* parse_exponent after its left-hand side.
parse_exponent_rest(lhs) ==
    IF lhs.ok
    THEN LET c == consume_punct_no_term(lhs.p, "DMul")
         IN  IF ~c.hit THEN lhs
             ELSE BinOp("Exp", lhs, Call("parse_exponent", <<c.p>>))
    ELSE lhs

\* parse_unary after a `~` (n the result of its consume_punct) or a `!` (b).
parse_unary_rest(n, b) ==
    Try(Call("parse_unary", <<IF n.hit THEN n.p ELSE b.p>>), LAMBDA lhs :
    Ok(new_unop(IF n.hit THEN "BitNot" ELSE "Not", lhs.node), lhs.p))

\* What the method fn of the chain does with r, the return of its first call.
Rest(fn, r) ==
    CASE fn = "parse_function" -> parse_function_rest(r)
      [] fn = "parse_exponent" -> parse_exponent_rest(r)
      [] fn = "parse_arg_mul" -> parse_binop_loop(r, MulOps, "parse_unary_minus", TRUE)
      [] fn = "parse_arg_add" -> parse_binop_loop(r, AddOps, "parse_arg_mul", FALSE)
      [] fn = "parse_arg_shift" -> parse_binop_loop(r, ShiftOps, "parse_arg_add", FALSE)
      [] fn = "parse_arg_bitand" -> parse_binop_loop(r, BitandOps, "parse_arg_shift", FALSE)
      [] fn = "parse_arg_bitor" -> parse_binop_loop(r, BitorOps, "parse_arg_bitand", FALSE)
      [] fn = "parse_arg_comp" -> parse_binop_loop(r, CompOps, "parse_arg_bitor", TRUE)
      [] fn = "parse_arg_eq" -> parse_arg_eq_rest(r)
      [] fn = "parse_arg_logical_and" -> parse_binop_loop(r, LAndOps, "parse_arg_eq", FALSE)
      [] fn = "parse_arg_logical_or" ->
            parse_binop_loop(r, LOrOps, "parse_arg_logical_and", FALSE)
      [] fn = "parse_arg_range" -> parse_arg_range_rest(r)
      [] fn = "parse_arg_ternary" -> parse_arg_ternary_rest(r)
      [] fn = "parse_arg_assign" -> parse_arg_assign_rest(r)
      [] fn = "parse_expr" -> parse_expr_rest(r)
      [] fn = "parse_stmt" -> parse_stmt_loop(r)
      [] fn \in {"parse_unary", "parse_unary_minus", "parse_arg"} -> r

\* The way down from the method Chain[to] at p, to the first method of the
\* chain that returns: [i, r], Chain[i] the method and r what it returns.
Descend(to, p) ==
    LET c == consume_punct(save_state(p), "Minus")
        q == IF to >= Level("parse_unary_minus") THEN discard_state(c.p) ELSE p
        n == consume_punct(q, "BitNot")
        b == consume_punct(q, "Not")
    IN  IF to >= Level("parse_unary_minus") /\ c.hit
        THEN [i |-> Level("parse_unary_minus"), r |-> parse_unary_minus_rest(c)]
        ELSE IF to >= Level("parse_unary") /\ (n.hit \/ b.hit)
        THEN [i |-> Level("parse_unary"), r |-> parse_unary_rest(n, b)]
        ELSE [i |-> Level("parse_primary"), r |-> parse_primary(q)]

\* The way back up: what the methods Chain[lo], ..., Chain[hi] do in turn
\* with r, the return of Chain[lo - 1].  An error is returned by each (`?`).
Ascend(r, lo, hi) ==
    CASE ~r.ok \/ lo > hi -> r
      [] lo = hi -> Rest(Chain[lo], r)
      [] OTHER -> Ascend(Ascend(r, lo, (lo + hi) \div 2), (lo + hi) \div 2 + 1, hi)

\* Descend, then Ascend.
Climb(d, to) == Ascend(d.r, d.i + 1, to)

\* self.fn() at p, fn a method of the chain.
Parse(fn, p) == Climb(Descend(Level(fn), p), Level(fn))

\* Vec::reverse
RECURSIVE Reverse(_)
Reverse(seq) == IF seq = << >> THEN << >> ELSE Append(Reverse(Tail(seq)), Head(seq))

\* parse_function after its primary r.
parse_function_rest(r) ==
    IF r.ok
    THEN IF is_operation(r.node)
         THEN LET c == consume_punct_no_term(r.p, "LParen")
              IN  IF c.hit
                  THEN Try(Call("parse_args", <<c.p, TRUE, "RParen">>), LAMBDA a :
                       Try(Call("parse_block", <<a.p>>), LAMBDA b :
                       parse_function_loop(b.p,
                           new_send(new_self, as_method_name(r.node), a.node.args,
                                    a.node.kw_args, b.node, TRUE))))
                  ELSE Try(Call("parse_block", <<c.p>>), LAMBDA b :
                       parse_function_loop(b.p,
                           IF b.node.kind # "None"
                           THEN new_send(new_self, as_method_name(r.node), << >>, << >>,
                                         b.node, TRUE)
                           ELSE r.node))
         ELSE parse_function_loop(r.p, r.node)
    ELSE r

\* The method name after `.`, tok its first token: the result's node is the
\* name, with its `?` or `!`.
parse_dot_name(p, tok) ==
    IF tok.k = "Ident" /\ tok.s
    THEN LET sfx == get(p)
         IN  IF ~sfx.ok THEN error_eof(sfx.p)
             ELSE IF IsPunct(sfx.tok, "Question") THEN Ok(tok.v \o "?", sfx.p)
             ELSE IF IsPunct(sfx.tok, "Not") THEN Ok(tok.v \o "!", sfx.p)
             ELSE error_unexpected(sfx.p, "Illegal method name.")
    ELSE Ok(tok.v, p)

\* The parenthesized arguments and the block of the method i (its id and the
\* parser after its name) sent to node.
parse_dot_send(i, node) ==
    LET c == consume_punct_no_term(i.p, "LParen")
    IN  Try(IF c.hit THEN Call("parse_args", <<c.p, TRUE, "RParen">>)
            ELSE Ok([args |-> << >>, kw_args |-> << >>], c.p), LAMBDA a :
        Try(Call("parse_block", <<a.p>>), LAMBDA b :
        Ok(new_send(IF node.kind = "Ident"
                    THEN new_send(new_self, node.id, << >>, << >>, NoBlock, TRUE)
                    ELSE node,
                    i.id, a.node.args, a.node.kw_args, b.node,
                    c.hit \/ b.node.kind # "None"), b.p)))

\* The `.` arm of parse_function's loop, the `.` consumed: the method name,
\* its parenthesized arguments and its block.  The result's node is the Send.
parse_dot(p, node) ==
    LET g == get(p)
    IN  IF ~g.ok THEN error_eof(g.p)
        ELSE IF g.tok.k \notin {"Ident", "Reserved"}
        THEN error_unexpected(g.p, "method name must be an identifier.")
        ELSE Try(parse_dot_name(g.p, g.tok), LAMBDA name :
             parse_dot_send(get_ident_id(name.p, name.node), node))

parse_function_loop(p, node) ==
    LET tok == peek(p)
    IN  IF IsPunct(tok, "Dot")
        THEN Try(parse_dot(get(p).p, node), LAMBDA d :
                                      parse_function_loop(d.p, d.node))
        ELSE IF IsPunct(tok, "LBracket")
        THEN IF is_operation(node) THEN Ok(node, p)
             ELSE Try(Call("parse_args", <<get(p).p, TRUE, "RBracket">>), LAMBDA a :
                           parse_function_loop(a.p,
                             new_array_member(node, Reverse(a.node.args))))
        ELSE IF IsPunct(tok, "Scope")
        THEN Try(expect_const(get(p).p), LAMBDA c :
                      parse_function_loop(c.p, new_scope(node, c.node)))
        ELSE Ok(node, p)

\* Parser::parse_args; punct is meaningful when flag holds (a parenthesized
\* list).  The result's node is [args, kw_args].
parse_args(p, flag, punct) == parse_args_loop(p, flag, punct, << >>, << >>)

\* One argument of parse_args: a splat, a keyword argument or a plain one.
parse_args_item(p, args, keyword_args) ==
    LET m == consume_punct(p, "Mul")
    IN  IF m.hit
        THEN Try(Call("parse_arg", <<m.p>>), LAMBDA array :
                      Ok([args |-> Append(args, new_splat(array.node)),
                          kw_args |-> keyword_args], array.p))
        ELSE Try(Call("parse_arg", <<m.p>>), LAMBDA r :
                      IF r.node.kind \in {"Ident", "LocalVar"}
                 THEN LET c == consume_punct_no_term(r.p, "Colon")
                      IN  IF c.hit
                          THEN Try(Call("parse_arg", <<c.p>>), LAMBDA v :
                                        Ok([args |-> args,
                                            kw_args |-> Append(keyword_args,
                                                               <<r.node.id, v.node>>)],
                                           v.p))
                          ELSE Ok([args |-> Append(args, r.node),
                                   kw_args |-> keyword_args], c.p)
                 ELSE Ok([args |-> Append(args, r.node), kw_args |-> keyword_args], r.p))

parse_args_loop(p, flag, punct, args, keyword_args) ==
    LET e == IF flag THEN consume_punct(p, punct) ELSE [hit |-> FALSE, p |-> p]
    IN  IF e.hit THEN Ok([args |-> args, kw_args |-> keyword_args], e.p)
        ELSE Try(parse_args_item(e.p, args, keyword_args), LAMBDA it :
                      LET c == consume_punct(it.p, "Comma")
                      IN  IF c.hit
                          THEN parse_args_loop(c.p, flag, punct, it.node.args,
                                               it.node.kw_args)
                          ELSE IF flag
                          THEN Try(expect_punct(c.p, punct), LAMBDA x :
                                                        Ok(it.node, x.p))
                          ELSE Ok(it.node, c.p))

\* new_param / new_block_param followed by `?': the parameter node is pushed
\* before the collector is asked, and the error leaves the collector changed.
declare_param(p, args, node, id, is_block) ==
    LET np == IF is_block THEN new_block_param(p.context_stack, id)
              ELSE new_param(p.context_stack, id)
        q == [p EXCEPT !.context_stack = np.stack]
    IN  IF np.is_err THEN error_unexpected(q, "Duplicated argument name.")
        ELSE Ok(Append(args, node), q)

\* The parameter loop of parse_block, up to the closing `|`.
parse_block_params(p, params) ==
    Try(expect_ident(p), LAMBDA id :
    Try(declare_param(id.p, params, new_param_node(id.node), id.node, FALSE), LAMBDA d :
    LET c == consume_punct(d.p, "Comma")
    IN  IF c.hit THEN parse_block_params(c.p, d.node)
        ELSE Try(expect_punct(c.p, "BitOr"), LAMBDA x : Ok(d.node, x.p))))

\* The parameters of a block, bar the result of consume_punct(Punct::BitOr):
\* `|a, b|`, `||` or nothing.
parse_block_head(bar) ==
    IF bar.hit
    THEN LET bar2 == consume_punct(bar.p, "BitOr")
         IN  IF bar2.hit THEN Ok(<< >>, bar2.p)
             ELSE parse_block_params(bar2.p, << >>)
    ELSE Ok(<< >>, consume_punct(bar.p, "LOr").p)

\* parse_block after `do` (is_do) or `{`, in the Block context it has pushed.
parse_block_body(p, is_do) ==
    Try(parse_block_head(consume_punct(p, "BitOr")), LAMBDA params :
    Try(Call("parse_comp_stmt", <<params.p>>), LAMBDA body :
    Try(IF is_do THEN expect_reserved(body.p, "End")
        ELSE expect_punct(body.p, "RBrace"), LAMBDA e :
    Ok(new_proc(params.node, body.node, context_last(e.p.context_stack).lvar),
       [e.p EXCEPT !.context_stack = pop_context(@)]))))

parse_block(p) ==
    LET d == consume_reserved_no_skip_line_term(p, "Do")
        b == consume_punct_no_term(p, "LBrace")
    IN  IF ~d.hit /\ ~b.hit THEN Ok(NoBlock, p)
        ELSE parse_block_body([(IF d.hit THEN d.p ELSE b.p) EXCEPT
                                  !.context_stack = push_context(@, Context_new_block)],
                              d.hit)

\* parse_primary, TokenKind::Ident; the token is consumed.
parse_primary_ident(p, tok) ==
    LET i == get_ident_id(p, tok.v)
        q == consume_punct(i.p, "Question")
        n == consume_punct(i.p, "Not")
    IN  IF tok.s
        THEN IF q.hit
             THEN LET j == get_ident_id(q.p, tok.v \o "?")
                  IN  Ok(new_identifier(j.id, TRUE), j.p)
             ELSE IF n.hit
             THEN LET j == get_ident_id(n.p, tok.v \o "!")
                  IN  Ok(new_identifier(j.id, TRUE), j.p)
             ELSE Ok(new_identifier(i.id, TRUE), i.p)
        ELSE IF is_local_var(i.p.context_stack, i.id) THEN Ok(new_lvar(i.id), i.p)
        ELSE Ok(new_identifier(i.id, FALSE), i.p)

\* Parser::parse_op_definable; the result's node is the IdentId.
parse_op_definable(p, punct) ==
    IF punct = "LBracket"
    THEN LET r == consume_punct_no_term(p, "RBracket")
             a == consume_punct_no_term(r.p, "Assign")
             i == get_ident_id(a.p, IF a.hit THEN "[]=" ELSE "[]")
         IN  IF r.hit THEN Ok(i.id, i.p)
             ELSE error_unexpected(r.p, "Invalid symbol literal.")
    ELSE error_unexpected(p, "Invalid symbol literal.")

\* Parser::token_as_symbol
token_as_symbol(token) == token.v

\* parse_primary, Punct::Colon (a symbol); the `:` is consumed.
parse_primary_symbol(p) ==
    LET g == get(p)
        token == g.tok
    IN  IF ~g.ok THEN error_eof(g.p)
        ELSE IF token.k = "Punct"
        THEN Try(parse_op_definable(g.p, token.v), LAMBDA d :
                                      Ok(new_symbol(d.node), d.p))
        ELSE IF can_be_symbol(token)
        THEN LET i == get_ident_id(g.p, token_as_symbol(token))
             IN  Ok(new_symbol(i.id), i.p)
        ELSE IF token.k = "OpenDoubleQuote"
        THEN Try(Call("parse_interporated_string_literal", <<g.p, token.v>>), LAMBDA n :
                      LET i == get_ident_id(n.p, "to_sym")
                      IN  Ok(new_send(n.node, i.id, << >>, << >>, NoBlock, TRUE), i.p))
        ELSE error_unexpected(g.p, "Expect identifier or string.")

\* The parameter loop of a lambda `-> (a, b) { }`, up to the closing `)`.
parse_lambda_params(p, params) ==
    Try(expect_ident(p), LAMBDA id :
    Try(declare_param(id.p, params, new_param_node(id.node), id.node, FALSE), LAMBDA d :
    LET c == consume_punct(d.p, "Comma")
    IN  IF c.hit THEN parse_lambda_params(c.p, d.node)
        ELSE Try(expect_punct(c.p, "RParen"), LAMBDA x : Ok(d.node, x.p))))

\* The parameters of a lambda, lp the result of consume_punct(Punct::LParen):
\* `(a, b)`, `()`, one bare identifier or nothing.
parse_lambda_head(lp) ==
    IF lp.hit
    THEN LET rp == consume_punct(lp.p, "RParen")
         IN  IF rp.hit THEN Ok(<< >>, rp.p)
             ELSE parse_lambda_params(rp.p, << >>)
    ELSE IF peek(lp.p).k = "Ident"
    THEN Try(expect_ident(lp.p), LAMBDA one :
         declare_param(one.p, << >>, new_param_node(one.node), one.node, FALSE))
    ELSE Ok(<< >>, lp.p)

\* parse_primary, Punct::Arrow (a lambda); the `->` is consumed.
parse_primary_lambda(p) ==
    Try(parse_lambda_head(consume_punct(
            [p EXCEPT !.context_stack = push_context(@, Context_new_block)], "LParen")),
        LAMBDA params :
    Try(expect_punct(params.p, "LBrace"), LAMBDA lb :
    Try(Call("parse_comp_stmt", <<lb.p>>), LAMBDA body :
    Try(expect_punct(body.p, "RBrace"), LAMBDA rb :
    Ok(new_proc(params.node, body.node, context_last(rb.p.context_stack).lvar),
       [rb.p EXCEPT !.context_stack = pop_context(@)])))))

\* Parser::parse_then / Parser::parse_do
parse_then(p) ==
    LET t == consume_term(p)
    IN  IF t.hit THEN Ok(Unit, consume_reserved(t.p, "Then").p)
        ELSE expect_reserved(t.p, "Then")

parse_do(p) ==
    LET t == consume_term(p)
    IN  IF t.hit THEN Ok(Unit, t.p) ELSE expect_reserved(t.p, "Do")

\* parse_primary, Reserved::For; the `for` is consumed.
parse_primary_for(p) ==
    Try(expect_ident(p), LAMBDA v :
    Try(expect_reserved([v.p EXCEPT !.context_stack = add_local_var_if_new(@, v.node)],
                        "In"), LAMBDA i :
    Try(Call("parse_expr", <<i.p>>), LAMBDA iter :
    Try(parse_do(iter.p), LAMBDA d :
    Try(Call("parse_comp_stmt", <<d.p>>), LAMBDA body :
    Try(expect_reserved(body.p, "End"), LAMBDA e :
    Ok(new_for(new_lvar(v.node), iter.node, body.node), e.p)))))))

\* parse_primary, Reserved::While (negate = FALSE) and Reserved::Until (TRUE).
parse_primary_while(p, negate) ==
    Try(Call("parse_expr", <<p>>), LAMBDA cond :
    Try(parse_do(cond.p), LAMBDA d :
    Try(Call("parse_comp_stmt", <<d.p>>), LAMBDA body :
    Try(expect_reserved(body.p, "End"), LAMBDA e :
    Ok(new_while(IF negate THEN new_unop("Not", cond.node) ELSE cond.node, body.node),
       e.p)))))

\* The optional `else COMPSTMT` of a case, of parse_if_then and of parse_unless.
parse_else(p) ==
    LET el == consume_reserved(p, "Else")
    IN  IF el.hit THEN Call("parse_comp_stmt", <<el.p>>)
        ELSE Ok(new_comp_stmt(<< >>), el.p)

\* The `while self.consume_reserved(Reserved::When)` loop of the case arm.
parse_case_loop(p, when_) ==
    LET w == consume_reserved(p, "When")
    IN  IF ~w.hit THEN Ok(when_, w.p)
        ELSE Try(Call("parse_args", <<w.p, FALSE, "Arrow">>), LAMBDA arg :
             Try(parse_then(arg.p), LAMBDA t :
             Try(Call("parse_comp_stmt", <<t.p>>), LAMBDA body :
             parse_case_loop(body.p,
                             Append(when_, CaseBranch_new(arg.node.args, body.node))))))

\* parse_primary, Reserved::Case; the `case` is consumed.
parse_primary_case(p) ==
    Try(Call("parse_expr", <<p>>), LAMBDA cond :
    Try(parse_case_loop(consume_term(cond.p).p, << >>), LAMBDA when_ :
    Try(parse_else(when_.p), LAMBDA else_ :
    Try(expect_reserved(else_.p, "End"), LAMBDA e :
    Ok(new_case(cond.node, when_.node, else_.node), e.p)))))

\* The `while self.consume_punct_no_term(Punct::Comma)` loop of the return arm.
parse_return_loop(p, vec) ==
    LET c == consume_punct_no_term(p, "Comma")
    IN  IF ~c.hit THEN Ok(vec, c.p)
        ELSE Try(Call("parse_arg", <<c.p>>), LAMBDA a :
             parse_return_loop(a.p, Append(vec, a.node)))

\* parse_primary, Reserved::Return; the `return` is consumed.
parse_primary_return(p) ==
    LET tok == peek_no_term(p)
    IN  IF is_term(tok) \/ IsReserved(tok, "Unless") \/ IsReserved(tok, "If")
           \/ check_stmt_end(tok)
        THEN Ok(new_return(new_comp_stmt(<< >>)), p)
        ELSE Try(Call("parse_arg", <<p>>), LAMBDA val :
             LET c == consume_punct_no_term(val.p, "Comma")
             IN  IF ~c.hit THEN Ok(new_return(val.node), c.p)
                 ELSE Try(Call("parse_arg", <<c.p>>), LAMBDA second :
                      Try(parse_return_loop(second.p, <<val.node, second.node>>),
                          LAMBDA vec :
                      Ok(new_return(new_array(Reverse(vec.node))), vec.p))))

\* The `while let TokenKind::StringLit` loop of parse_string_literal.
RECURSIVE parse_string_literal(_, _)
parse_string_literal(p, str) ==
    IF peek_no_term(p).k = "StringLit"
    THEN parse_string_literal(get(p).p, str \o peek_no_term(p).v)
    ELSE Ok(new_string(str), p)

parse_interporated_string_literal(p, str) ==
    parse_interporated_string_literal_loop(p, <<new_string(str)>>)

\* An iteration that leaves the parser state as it found it repeats forever
\* (no token is consumed, nodes grows): the result is the error "Diverge".
parse_interporated_string_literal_loop(p, nodes) ==
    LET tok == peek(p)
    IN  IF tok.k = "CloseDoubleQuote"
        THEN Ok(new_interporated_string(Append(nodes, new_string(tok.v))), get(p).p)
        ELSE IF tok.k = "IntermediateDoubleQuote"
        THEN parse_interporated_string_literal_loop(get(p).p,
                                                    Append(nodes, new_string(tok.v)))
        ELSE IF tok.k = "OpenDoubleQuote"
        THEN Try(Call("parse_interporated_string_literal", <<get(p).p, tok.v>>),
                 LAMBDA inner :
             parse_interporated_string_literal_loop(inner.p, nodes))
        ELSE IF tok.k = "EOF" THEN error_unexpected(p, "Unexpectd EOF.")
        ELSE Try(Call("parse_comp_stmt", <<p>>), LAMBDA r :
             IF r.p.cursor = p.cursor THEN Err("Diverge", "parse_interporated_string_literal", p)
             ELSE parse_interporated_string_literal_loop(r.p, Append(nodes, r.node)))

parse_hash_literal(p) == parse_hash_literal_loop(p, << >>)

\* The key of a hash entry: the result's node is [key, symbol_flag], the flag
\* set for the `sym: value` form.
parse_hash_key(p) ==
    IF can_be_symbol(peek(p))
    THEN LET g == get(save_state(p))
             colon == consume_punct(g.p, "Colon")
             sym == get_ident_id(discard_state(colon.p), token_as_symbol(g.tok))
         IN  IF colon.hit
             THEN Ok([key |-> new_symbol(sym.id), symbol_flag |-> TRUE], sym.p)
             ELSE Try(Call("parse_arg", <<restore_state(colon.p)>>), LAMBDA k :
                  Ok([key |-> k.node, symbol_flag |-> FALSE], k.p))
    ELSE Try(Call("parse_arg", <<p>>), LAMBDA k :
         Ok([key |-> k.node, symbol_flag |-> FALSE], k.p))

parse_hash_literal_loop(p, kvp) ==
    LET rb == consume_punct(p, "RBrace")
    IN  IF rb.hit THEN Ok(new_hash(kvp), rb.p)
        ELSE Try(parse_hash_key(rb.p), LAMBDA key :
             Try(IF ~key.node.symbol_flag THEN expect_punct(key.p, "FatArrow")
                 ELSE Ok(Unit, key.p), LAMBDA arrow :
             Try(Call("parse_arg", <<arrow.p>>), LAMBDA value :
             LET c == consume_punct(value.p, "Comma")
                 kvp2 == Append(kvp, <<key.node.key, value.node>>)
             IN  IF c.hit THEN parse_hash_literal_loop(c.p, kvp2)
                 ELSE Try(expect_punct(c.p, "RBrace"), LAMBDA x :
                      Ok(new_hash(kvp2), x.p)))))

parse_if_then(p) ==
    Try(Call("parse_expr", <<p>>), LAMBDA cond :
    Try(parse_then(cond.p), LAMBDA t :
    Try(Call("parse_comp_stmt", <<t.p>>), LAMBDA then_ :
    LET ei == consume_reserved(then_.p, "Elsif")
    IN  Try(IF ei.hit THEN Call("parse_if_then", <<ei.p>>) ELSE parse_else(ei.p),
            LAMBDA else_ :
        Ok(new_if(cond.node, then_.node, else_.node), else_.p)))))

parse_unless(p) ==
    Try(Call("parse_expr", <<p>>), LAMBDA cond :
    Try(parse_then(cond.p), LAMBDA t :
    Try(Call("parse_comp_stmt", <<t.p>>), LAMBDA then_ :
    Try(parse_else(then_.p), LAMBDA else_ :
    Ok(new_if(cond.node, else_.node, then_.node), else_.p)))))

\* `X end': the expect_reserved(Reserved::End) that closes an arm of parse_primary.
expect_end(r) ==
    Try(r, LAMBDA node :
    Try(expect_reserved(node.p, "End"), LAMBDA e : Ok(node.node, e.p)))

\* The test of the class and module arms of parse_primary.
in_method_body(p) == context_last(p.context_stack).kind = "Method"

parse_primary(p) ==
    LET g == get(p)
        tok == g.tok
        q == g.p
    IN  IF ~g.ok THEN error_eof(q)
        ELSE CASE tok.k = "Ident" -> parse_primary_ident(q, tok)
          [] tok.k = "InstanceVar" ->
                LET i == get_ident_id(q, tok.v) IN Ok(new_instance_var(i.id), i.p)
          [] tok.k = "GlobalVar" ->
                LET i == get_ident_id(q, tok.v) IN Ok(new_global_var(i.id), i.p)
          [] tok.k = "Const" ->
                LET i == get_ident_id(q, tok.v) IN Ok(new_const(i.id, FALSE), i.p)
          [] tok.k = "NumLit" -> Ok(new_integer(tok.v), q)
          [] tok.k = "FloatLit" -> Ok(new_float(tok.v), q)
          [] tok.k = "StringLit" -> parse_string_literal(q, tok.v)
          [] tok.k = "OpenDoubleQuote" -> Call("parse_interporated_string_literal", <<q, tok.v>>)
          [] tok.k = "Punct" ->
                CASE tok.v = "Minus" ->
                        LET n == get(q)
                        IN  IF ~n.ok THEN error_eof(n.p)
                            ELSE IF n.tok.k = "NumLit" THEN Ok(new_integer(-n.tok.v), n.p)
                            ELSE IF n.tok.k = "FloatLit" THEN Ok(new_float(-n.tok.v), n.p)
                            ELSE panic(n.p, "unreachable")
                  [] tok.v = "LParen" ->
                        Try(Call("parse_comp_stmt", <<q>>), LAMBDA node :
                                 Try(expect_punct(node.p, "RParen"), LAMBDA x :
                                                          Ok(node.node, x.p)))
                  [] tok.v = "LBracket" ->
                        Try(Call("parse_args", <<q, TRUE, "RBracket">>), LAMBDA a :
                                                 Ok(new_array(Reverse(a.node.args)), a.p))
                  [] tok.v = "LBrace" -> Call("parse_hash_literal", <<q>>)
                  [] tok.v = "Colon" -> parse_primary_symbol(q)
                  [] tok.v = "Arrow" -> parse_primary_lambda(q)
                  [] tok.v = "Scope" ->
                        Try(expect_const(q), LAMBDA c :
                                                 Ok(new_const(c.node, TRUE), c.p))
                  [] OTHER -> error_unexpected(q, "Unexpected token")
          [] tok.k = "Reserved" ->
                CASE tok.v = "If" -> expect_end(Call("parse_if_then", <<q>>))
                  [] tok.v = "Unless" -> expect_end(Call("parse_unless", <<q>>))
                  [] tok.v = "For" -> parse_primary_for(q)
                  [] tok.v = "While" -> parse_primary_while(q, FALSE)
                  [] tok.v = "Until" -> parse_primary_while(q, TRUE)
                  [] tok.v = "Case" -> parse_primary_case(q)
                  [] tok.v = "Def" -> Call("parse_def", <<q>>)
                  [] tok.v = "Class" ->
                        IF in_method_body(q)
                        THEN error_unexpected(q, "SyntaxError: class definition in method body.")
                        ELSE Call("parse_class", <<q, FALSE>>)
                  [] tok.v = "Module" ->
                        IF in_method_body(q)
                        THEN error_unexpected(q, "SyntaxError: class definition in method body.")
                        ELSE Call("parse_class", <<q, TRUE>>)
                  [] tok.v = "Return" -> parse_primary_return(q)
                  [] tok.v = "Break" -> Ok(new_break, q)
                  [] tok.v = "Next" -> Ok(new_next, q)
                  [] tok.v = "True" -> Ok(new_bool(TRUE), q)
                  [] tok.v = "False" -> Ok(new_bool(FALSE), q)
                  [] tok.v = "Nil" -> Ok(new_nil, q)
                  [] tok.v = "Self_" -> Ok(new_self, q)
                  [] tok.v = "Begin" -> expect_end(Call("parse_comp_stmt", <<q>>))
                  [] OTHER -> error_unexpected(q, "Unexpected token")
          [] OTHER -> error_unexpected(q, "Unexpected token")

\* The method name of parse_def; the result's node is
\* [id, is_class_method].
parse_def_name(p) ==
    LET g == get(p)
        tok == g.tok
        dot == expect_punct(g.p, "Dot")
        cm == expect_ident(dot.p)
        sfx == get(g.p)
        setter == IsPunct(peek_no_term(g.p), "Assign")
        name == CASE tok.k = "Ident" /\ ~tok.s ->
                        IF setter THEN [p |-> get(g.p).p, v |-> tok.v \o "="]
                        ELSE [p |-> g.p, v |-> tok.v]
                  [] tok.k = "Ident" /\ tok.s ->
                        [p |-> sfx.p,
                         v |-> tok.v \o (IF IsPunct(sfx.tok, "Question") THEN "?" ELSE "!")]
                  [] IsPunct(tok, "Plus") -> [p |-> g.p, v |-> "+"]
                  [] IsPunct(tok, "Minus") -> [p |-> g.p, v |-> "-"]
                  [] IsPunct(tok, "Mul") -> [p |-> g.p, v |-> "*"]
        i == get_ident_id(name.p, name.v)
    IN  IF ~g.ok THEN error_eof(g.p)
        ELSE IF IsReserved(tok, "Self_")
        THEN IF ~dot.ok THEN dot
             ELSE IF ~cm.ok THEN cm
             ELSE Ok([id |-> cm.node, is_class_method |-> TRUE], cm.p)
        ELSE IF tok.k = "Ident" /\ tok.s /\ ~sfx.ok THEN error_eof(sfx.p)
        ELSE IF tok.k = "Ident" /\ tok.s
                /\ ~(IsPunct(sfx.tok, "Question") \/ IsPunct(sfx.tok, "Not"))
        THEN error_unexpected(sfx.p, "Illegal method name.")
        ELSE IF tok.k = "Ident" \/ IsPunct(tok, "Plus") \/ IsPunct(tok, "Minus")
                \/ IsPunct(tok, "Mul")
        THEN Ok([id |-> i.id, is_class_method |-> FALSE], i.p)
        ELSE error_unexpected(g.p, "Expected identifier or operator.")

parse_def(p) ==
    Try(parse_def_name(p), LAMBDA name :
    Try(Call("parse_params",
             <<[name.p EXCEPT !.context_stack = push_context(@, Context_new_method)]>>),
        LAMBDA args :
    Try(Call("parse_comp_stmt", <<args.p>>), LAMBDA body :
    Try(expect_reserved(body.p, "End"), LAMBDA e :
    LET lvar == context_last(e.p.context_stack).lvar
        closed == [e.p EXCEPT !.context_stack = pop_context(@)]
    IN  IF name.node.is_class_method
        THEN Ok(new_class_method_decl(name.node.id, args.node, body.node, lvar), closed)
        ELSE Ok(new_method_decl(name.node.id, args.node, body.node, lvar), closed)))))
\* enum Kind with Rest declared last: no state is at or after Rest.
KindRestLast == [Reqired |-> 0, Optional |-> 1, PostReq |-> 2, KeyWord |-> 3,
                 KWRest |-> 4, Rest |-> 5]

\* enum Kind of parse_params, in its declaration order (PartialOrd).
Kind == [Reqired |-> 0, Optional |-> 1, Rest |-> 2, PostReq |-> 3, KeyWord |-> 4,
         KWRest |-> 5]

\* The end of an iteration of the loop of parse_params, d the result of
\* declare_param: the result's node is [args, state, brk] (brk: the iteration
\* ended with `break').
parse_params_done(d, state, brk) ==
    IF ~d.ok THEN d ELSE Ok([args |-> d.node, state |-> state, brk |-> brk], d.p)

\* An iteration of the loop of parse_params whose parameter starts with the
\* identifier id (the result of expect_ident).
parse_params_ident(id, args, state) ==
    LET asg == consume_punct(id.p, "Assign")
        col == consume_punct_no_term(id.p, "Colon")
    IN  IF asg.hit
        THEN Try(Call("parse_arg", <<asg.p>>), LAMBDA default :
             IF state \notin {"Reqired", "Optional"}
             THEN error_unexpected(default.p,
                                   "Optional parameter is not allowed in ths position.")
             ELSE parse_params_done(
                      declare_param(default.p, args,
                                    new_optional_param(id.node, default.node),
                                    id.node, FALSE),
                      "Optional", FALSE))
        ELSE IF col.hit
        THEN Try(IF IsPunct(peek_no_term(col.p), "Comma") THEN Ok(NoBlock, col.p)
                 ELSE Call("parse_arg", <<col.p>>), LAMBDA default :
             IF state = "KWRest"
             THEN error_unexpected(default.p,
                                   "Keyword parameter is not allowed in ths position.")
             ELSE parse_params_done(
                      declare_param(default.p, args,
                                    new_keyword_param(id.node, default.node),
                                    id.node, FALSE),
                      "KeyWord", FALSE))
        ELSE IF state = "Reqired"
        THEN parse_params_done(
                 declare_param(col.p, args, new_param_node(id.node), id.node, FALSE),
                 "Reqired", FALSE)
        ELSE IF state \in {"PostReq", "Optional", "Rest"}
        THEN parse_params_done(
                 declare_param(col.p, args, new_post_param(id.node), id.node, FALSE),
                 "PostReq", FALSE)
        ELSE error_unexpected(col.p, "Required parameter is not allowed in ths position.")

\* One iteration of the loop of parse_params: a block parameter, a splat or a
\* parameter that starts with an identifier.
parse_params_item(p, args, state) ==
    LET amp == consume_punct(p, "BitAnd")
        mul == consume_punct(p, "Mul")
    IN  IF amp.hit
        THEN Try(expect_ident(amp.p), LAMBDA id :
             parse_params_done(
                 declare_param(id.p, args, new_block_param_node(id.node), id.node, TRUE),
                 state, TRUE))
        ELSE IF mul.hit
        THEN Try(expect_ident(mul.p), LAMBDA id :
             IF Kind[state] >= Kind["Rest"]
             THEN error_unexpected(id.p, "Splat parameter is not allowed in ths position.")
             ELSE parse_params_done(
                      declare_param(id.p, args, new_splat_param(id.node), id.node, FALSE),
                      "Rest", FALSE))
        ELSE Try(expect_ident(p), LAMBDA id : parse_params_ident(id, args, state))

\* The loop of parse_params; the result's node is args.
parse_params_loop(p, args, state) ==
    Try(parse_params_item(p, args, state), LAMBDA it :
    IF it.node.brk THEN Ok(it.node.args, it.p)
    ELSE LET c == consume_punct_no_term(it.p, "Comma")
         IN  IF ~c.hit THEN Ok(it.node.args, c.p)
             ELSE parse_params_loop(c.p, it.node.args, it.node.state))

\* parse_params after the test for a terminator, paren the result of
\* consume_punct(Punct::LParen).
parse_params_list(paren) ==
    LET empty == consume_punct(paren.p, "RParen")
    IN  IF paren.hit /\ empty.hit
        THEN LET e == consume_term(empty.p)
             IN  IF ~e.hit THEN error_unexpected(e.p, "Expect terminator")
                 ELSE Ok(<< >>, e.p)
        ELSE Try(parse_params_loop(paren.p, << >>, "Reqired"), LAMBDA args :
             Try(IF paren.hit THEN expect_punct(args.p, "RParen")
                 ELSE Ok(Unit, args.p), LAMBDA close :
             LET e == consume_term(close.p)
             IN  IF ~e.hit THEN error_unexpected(e.p, "Expect terminator.")
                 ELSE Ok(args.node, e.p)))

parse_params(p) ==
    LET t == consume_term(p)
    IN  IF t.hit THEN Ok(<< >>, t.p)
        ELSE parse_params_list(consume_punct(p, "LParen"))

\* The placeholder IdentId of an absent superclass (IdentId::from(0usize)).
NoSuperclass == 0

\* The body of a class or module: the name is interned (i its id and the
\* parser after it) once the superclass is parsed.
parse_class_body(i, superclass, is_module) ==
    Try(Call("parse_comp_stmt",
             <<[i.p EXCEPT !.context_stack = push_context(@, Context_new_class(NoCollector))]>>),
        LAMBDA body :
    Try(expect_reserved(body.p, "End"), LAMBDA e :
    Ok(new_class_decl(i.id, superclass, body.node,
                      context_last(e.p.context_stack).lvar, is_module),
       [e.p EXCEPT !.context_stack = pop_context(@)])))
\* parse_class without its test `is_module' after `<'.
parse_class_any(p, is_module) ==
    LET g == get(p)
        lt == consume_punct_no_term(g.p, "Lt")
    IN  IF ~g.ok THEN error_eof(g.p)
        ELSE IF g.tok.k # "Const"
        THEN error_unexpected(g.p, "Class/Module name must be CONSTANT.")
        ELSE Try(IF lt.hit THEN Call("parse_expr", <<lt.p>>)
                 ELSE Ok(new_const(NoSuperclass, FALSE), lt.p), LAMBDA superclass :
             parse_class_body(get_ident_id(consume_term(superclass.p).p, g.tok.v),
                              superclass.node, is_module))

parse_class(p, is_module) ==
    LET g == get(p)
        lt == consume_punct_no_term(g.p, "Lt")
    IN  IF ~g.ok THEN error_eof(g.p)
        ELSE IF g.tok.k # "Const"
        THEN error_unexpected(g.p, "Class/Module name must be CONSTANT.")
        ELSE IF lt.hit /\ is_module THEN error_unexpected(lt.p, "Unexpected '<'.")
        ELSE Try(IF lt.hit THEN Call("parse_expr", <<lt.p>>)
                 ELSE Ok(new_const(NoSuperclass, FALSE), lt.p), LAMBDA superclass :
             parse_class_body(get_ident_id(consume_term(superclass.p).p, g.tok.v),
                              superclass.node, is_module))

\* Parser::parse_program on the token vector toks.  Ok carries the
\* ParseResult (node, lvar_collector, ident_table).
parse_program(toks) ==
    Try(Call("parse_comp_stmt",
             <<[Parser_new(toks) EXCEPT
                   !.context_stack = push_context(@, Context_new_class(NoCollector))]>>),
        LAMBDA node :
    LET q == [node.p EXCEPT !.context_stack = pop_context(@)]
    IN  IF peek(q).k = "EOF"
        THEN [ok |-> TRUE, node |-> node.node,
              lvar_collector |-> context_last(node.p.context_stack).lvar,
              ident_table |-> q.ident_table, p |-> q]
        ELSE error_unexpected(q, "Expected end-of-input."))

\* RubyError::set_level on the error err.
set_level(err, level) ==
    [ok |-> FALSE, err |-> err.err, msg |-> err.msg, p |-> err.p, level |-> level]

\* parse_program_repl that numbers the levels from 1.
parse_program_repl_end_from_one(r) ==
    IF ~r.ok THEN set_level(r, Len(r.p.context_stack))
    ELSE LET q == [r.p EXCEPT !.context_stack = pop_context(@)]
         IN  IF peek(q).k = "EOF"
             THEN [ok |-> TRUE, node |-> r.node,
                   lvar_collector |-> context_last(r.p.context_stack).lvar,
                   ident_table |-> q.ident_table, p |-> q]
             ELSE set_level(error_unexpected(q, "Expected end-of-input."), 1)

\* parse_program_repl after parse_comp_stmt has returned r.
parse_program_repl_end(r) ==
    IF ~r.ok THEN set_level(r, Len(r.p.context_stack) - 1)
    ELSE LET q == [r.p EXCEPT !.context_stack = pop_context(@)]
         IN  IF peek(q).k = "EOF"
             THEN [ok |-> TRUE, node |-> r.node,
                   lvar_collector |-> context_last(r.p.context_stack).lvar,
                   ident_table |-> q.ident_table, p |-> q]
             ELSE set_level(error_unexpected(q, "Expected end-of-input."), 0)

\* Parser::parse_program_repl on the token vector toks, lvar_collector the
\* collector of the lines before (None for the first line).
parse_program_repl(toks, lvar_collector) ==
    parse_program_repl_end(
        Call("parse_comp_stmt",
             <<[Parser_new(toks) EXCEPT
                   !.context_stack =
                       push_context(@, Context_new_class(lvar_collector))]>>))

\* Parser::parse_program_repl on a parser (`mut self') whose ident_table the
\* caller has set: the tokens and the cursors are set anew, the ident_table
\* is used as it is.
parse_program_repl_self(self, toks, lvar_collector) ==
    parse_program_repl_end(
        Call("parse_comp_stmt",
             <<[self EXCEPT
                   !.tokens = toks, !.cursor = 0, !.prev_cursor = 0,
                   !.context_stack =
                       push_context(@, Context_new_class(lvar_collector))]>>))

(***************************************************************************)
(* Program texts.  The lexer is an external collaborator: a program text   *)
(* is given by its structure (source) and Lex renders the token vector     *)
(* the lexer produces for it.                                              *)
(***************************************************************************)
MaxStmts == 2

MaxParams == 3

MaxTargets == 2

Vars == {"x", "y"}

SeqsFromTo(S, lo, hi) == UNION {[1..n -> S] : n \in lo..hi}

RECURSIVE Join(_, _)
Join(seqs, sep) ==
    IF seqs = << >> THEN << >>
    ELSE IF Len(seqs) = 1 THEN seqs[1]
    ELSE seqs[1] \o sep \o Join(Tail(seqs), sep)

Other(v) == IF v = "x" THEN "y" ELSE "x"

\* Statements over the variables: `v = 1`, `v += 1`, `v, w = 1, 2`, `f(v)`, `v`.
StmtForms == {"assign", "opassign", "mulassign", "call", "ref"}

Stmts == [form : StmtForms, v : Vars]

LexStmt(st) ==
    CASE st.form = "assign" -> <<Ident(st.v), Punct("Assign"), NumLit(1)>>
      [] st.form = "opassign" -> <<Ident(st.v), AssignOp("Add"), NumLit(1)>>
      [] st.form = "mulassign" -> <<Ident(st.v), Punct("Comma"), Ident(Other(st.v)),
                                    Punct("Assign"), NumLit(1), Punct("Comma"), NumLit(2)>>
      [] st.form = "call" -> <<Ident("f"), Punct("LParen"), Ident(st.v), Punct("RParen")>>
      [] st.form = "ref" -> <<Ident(st.v)>>

StmtPrograms == [family : {"stmts"}, stmts : SeqsFromTo(Stmts, 1, MaxStmts)]

\* Parameter lists of `def m(...)`, `f do |...| end` and `->(...){}`.
ParamKinds == {"plain", "opt", "splat", "kw", "block"}

LexParam(pa) ==
    CASE pa.kind = "plain" -> <<Ident(pa.name)>>
      [] pa.kind = "opt" -> <<Ident(pa.name), Punct("Assign"), NumLit(1)>>
      [] pa.kind = "splat" -> <<Punct("Mul"), Ident(pa.name)>>
      [] pa.kind = "kw" -> <<Ident(pa.name), Punct("Colon"), NumLit(1)>>
      [] pa.kind = "block" -> <<Punct("BitAnd"), Ident(pa.name)>>

\* The i-th parameter has a name of its own or the name a.
OwnNames == <<"b", "c", "d", "e">>

ParamLists(kinds) ==
    UNION {{[i \in 1..n |-> [kind |-> ks[i],
                             name |-> IF shared[i] THEN "a" ELSE OwnNames[i]]] :
               ks \in [1..n -> kinds], shared \in [1..n -> BOOLEAN]} :
           n \in 1..MaxParams}

ParamPrograms ==
    [family : {"params"}, where : {"def"}, params : ParamLists(ParamKinds)]
    \cup
    [family : {"params"}, where : {"block", "lambda"}, params : ParamLists({"plain"})]

LexParams(src) ==
    LET list == Join([i \in 1..Len(src.params) |-> LexParam(src.params[i])],
                     <<Punct("Comma")>>)
    IN  CASE src.where = "def" ->
               <<Reserved("Def"), Ident("m"), Punct("LParen")>> \o list
               \o <<Punct("RParen"), LineTerm, Reserved("End")>>
          [] src.where = "block" ->
               <<Ident("f"), Reserved("Do"), Punct("BitOr")>> \o list
               \o <<Punct("BitOr"), LineTerm, Reserved("End")>>
          [] src.where = "lambda" ->
               <<Punct("Arrow"), Punct("LParen")>> \o list
               \o <<Punct("RParen"), Punct("LBrace"), Punct("RBrace")>>

\* Nested scopes, outermost first: `def m`, `class A`, `module A`,
\* `f do ... end` and `-> { ... }`, the innermost body empty.
ScopeKinds == {"def", "class", "module", "do", "lambda"}

\* One scope, and one scope nested in another.
NestPrograms == [family : {"nest"}, kinds : SeqsFromTo(ScopeKinds, 1, 2)]

\* The scopes of kinds around the tokens inner.
RECURSIVE LexScoped(_, _)
LexScoped(kinds, inner) ==
    IF kinds = << >> THEN inner
    ELSE LET body == LexScoped(Tail(kinds), inner)
         IN  CASE kinds[1] = "def" ->
                    <<Reserved("Def"), Ident("m"), LineTerm>> \o body
                    \o <<LineTerm, Reserved("End")>>
               [] kinds[1] = "class" ->
                    <<Reserved("Class"), Const("A"), LineTerm>> \o body
                    \o <<LineTerm, Reserved("End")>>
               [] kinds[1] = "module" ->
                    <<Reserved("Module"), Const("A"), LineTerm>> \o body
                    \o <<LineTerm, Reserved("End")>>
               [] kinds[1] = "do" ->
                    <<Ident("f"), Reserved("Do"), LineTerm>> \o body
                    \o <<LineTerm, Reserved("End")>>
               [] kinds[1] = "lambda" ->
                    <<Punct("Arrow"), Punct("LBrace")>> \o body \o <<Punct("RBrace")>>

LexNest(kinds) == LexScoped(kinds, << >>)

\* Class and module declarations, with and without `< superclass`.
Superclasses == {"", "B", "self"}

DeclPrograms ==
    [family : {"decl"}, is_module : BOOLEAN, superclass : Superclasses,
     body : SeqsFromTo(Stmts, 0, 1)]

LexDecl(src) ==
    <<Reserved(IF src.is_module THEN "Module" ELSE "Class"), Const("A")>>
    \o (CASE src.superclass = "" -> << >>
          [] src.superclass = "self" -> <<Punct("Lt"), Reserved("Self_")>>
          [] OTHER -> <<Punct("Lt"), Const(src.superclass)>>)
    \o <<LineTerm>>
    \o Join([i \in 1..Len(src.body) |-> LexStmt(src.body[i])], <<Punct("Semi")>>)
    \o <<LineTerm, Reserved("End")>>

\* Assignments `t1, ..., tn = 1, ..., n` over the target forms.
LegalTargets == {"ident", "ivar", "gvar", "const", "index", "attr"}

IllegalTargets == {"integer", "string", "call", "nil"}

TargetPrograms ==
    [family : {"targets"},
     lhs : SeqsFromTo(LegalTargets \cup IllegalTargets, 1, MaxTargets)]

LexTarget(t) ==
    CASE t = "ident" -> <<Ident("x")>>
      [] t = "ivar" -> <<InstanceVar("x")>>
      [] t = "gvar" -> <<GlobalVar("x")>>
      [] t = "const" -> <<Const("X")>>
      [] t = "index" -> <<InstanceVar("x"), Punct("LBracket"), NumLit(0), Punct("RBracket")>>
      [] t = "attr" -> <<Ident("x"), Punct("Dot"), Ident("y")>>
      [] t = "integer" -> <<NumLit(1)>>
      [] t = "string" -> <<StringLit("s")>>
      [] t = "call" -> <<Ident("f"), Punct("LParen"), NumLit(1), Punct("RParen")>>
      [] t = "nil" -> <<Reserved("Nil")>>

LexTargets(src) ==
    Join([i \in 1..Len(src.lhs) |-> LexTarget(src.lhs[i])], <<Punct("Comma")>>)
    \o <<Punct("Assign")>>
    \o Join([i \in 1..Len(src.lhs) |-> <<NumLit(i)>>], <<Punct("Comma")>>)

\* A line given to the REPL that breaks off: the scopes of kinds are opened,
\* the innermost `closed' of them are closed again, and then the text ends
\* ("eof"), or a `)` follows ("stray"), or `1 +` and the end ("operand").
Breaks == {"eof", "stray", "operand"}

ReplPrograms ==
    {src \in [family : {"repl"}, kinds : SeqsFromTo(ScopeKinds, 0, 2),
              closed : 0..2, break : Breaks] : src.closed <= Len(src.kinds)}

LexOpen(kind) ==
    CASE kind = "def" -> <<Reserved("Def"), Ident("m"), LineTerm>>
      [] kind = "class" -> <<Reserved("Class"), Const("A"), LineTerm>>
      [] kind = "module" -> <<Reserved("Module"), Const("A"), LineTerm>>
      [] kind = "do" -> <<Ident("f"), Reserved("Do"), LineTerm>>
      [] kind = "lambda" -> <<Punct("Arrow"), Punct("LBrace"), LineTerm>>

LexClose(kind) ==
    IF kind = "lambda" THEN <<Punct("RBrace"), LineTerm>>
    ELSE <<Reserved("End"), LineTerm>>

LexRepl(src) ==
    LET n == Len(src.kinds)
    IN  Join([i \in 1..n |-> LexOpen(src.kinds[i])], << >>)
        \o Join([i \in 1..src.closed |-> LexClose(src.kinds[n + 1 - i])], << >>)
        \o (CASE src.break = "eof" -> << >>
              [] src.break = "stray" -> <<Punct("RParen")>>
              [] src.break = "operand" -> <<NumLit(1), Punct("Plus")>>)

\* Texts that end in the middle of a construct: an operand, an `end`, a
\* `)`, a `]`, a `}` or the close of an interpolated string is missing.
Incomplete ==
    {"operand", "assign", "def", "class", "do", "if", "while", "paren", "call",
     "array", "index", "hash", "block", "lambda", "string", "string_expr"}

EofPrograms == [family : {"eof"}, construct : Incomplete]

LexEof(src) ==
    CASE src.construct = "operand" -> <<NumLit(1), Punct("Plus")>>
      [] src.construct = "assign" -> <<Ident("x"), Punct("Assign")>>
      [] src.construct = "def" -> <<Reserved("Def"), Ident("m"), LineTerm, Ident("x")>>
      [] src.construct = "class" -> <<Reserved("Class"), Const("A"), LineTerm>>
      [] src.construct = "do" -> <<Ident("f"), Reserved("Do"), LineTerm, Ident("x")>>
      [] src.construct = "if" -> <<Reserved("If"), Ident("x"), LineTerm, NumLit(1)>>
      [] src.construct = "while" -> <<Reserved("While"), Ident("x"), LineTerm, NumLit(1)>>
      [] src.construct = "paren" -> <<Punct("LParen"), NumLit(1)>>
      [] src.construct = "call" -> <<Ident("f"), Punct("LParen"), NumLit(1)>>
      [] src.construct = "array" -> <<Punct("LBracket"), NumLit(1)>>
      [] src.construct = "index" -> <<InstanceVar("x"), Punct("LBracket"), NumLit(0)>>
      [] src.construct = "hash" ->
             <<Punct("LBrace"), NumLit(1), Punct("FatArrow"), NumLit(2)>>
      [] src.construct = "block" -> <<Ident("f"), Punct("LBrace"), Ident("x")>>
      [] src.construct = "lambda" -> <<Punct("Arrow"), Punct("LBrace"), Ident("x")>>
      [] src.construct = "string" -> <<OpenDoubleQuote("a")>>
      [] src.construct = "string_expr" -> <<OpenDoubleQuote("a"), Ident("x")>>

\* Expressions with `**`: `a ** 2 ** 3` ("chain") and `-a ** 2` ("minus"),
\* the operand a an identifier, an integer literal or a float literal.
Operands == {"ident", "integer", "float"}

ExpPrograms == [family : {"exp"}, form : {"chain", "minus"}, operand : Operands]

LexOperand(a) ==
    CASE a = "ident" -> <<Ident("x")>>
      [] a = "integer" -> <<NumLit(5)>>
      [] a = "float" -> <<FloatLit(5)>>

LexExp(src) ==
    IF src.form = "chain"
    THEN LexOperand(src.operand)
         \o <<Punct("DMul"), NumLit(2), Punct("DMul"), NumLit(3)>>
    ELSE <<Punct("Minus")>> \o LexOperand(src.operand) \o <<Punct("DMul"), NumLit(2)>>

\* Command calls: the operation `f` ("ident") or `@x.f` ("send"), then on
\* the same line an argument that begins with one of the argument starters,
\* then `, 2` when more is TRUE.
Starters ==
    {"ident", "integer", "float", "string", "paren", "bracket", "brace", "colon",
     "minus", "plus", "arrow", "true", "false", "nil"}

CommandPrograms ==
    [family : {"command"}, operation : {"ident", "send"}, starter : Starters,
     more : BOOLEAN]

LexStarter(st) ==
    CASE st = "ident" -> <<Ident("y")>>
      [] st = "integer" -> <<NumLit(1)>>
      [] st = "float" -> <<FloatLit(1)>>
      [] st = "string" -> <<StringLit("s")>>
      [] st = "paren" -> <<Punct("LParen"), NumLit(1), Punct("RParen")>>
      [] st = "bracket" -> <<Punct("LBracket"), NumLit(1), Punct("RBracket")>>
      [] st = "brace" ->
             <<Punct("LBrace"), NumLit(1), Punct("FatArrow"), NumLit(2), Punct("RBrace")>>
      [] st = "colon" -> <<Punct("Colon"), Ident("a")>>
      [] st = "minus" -> <<Punct("Minus"), NumLit(1)>>
      [] st = "plus" -> <<Punct("Plus"), NumLit(1)>>
      [] st = "arrow" -> <<Punct("Arrow"), Punct("LBrace"), Punct("RBrace")>>
      [] st = "true" -> <<Reserved("True")>>
      [] st = "false" -> <<Reserved("False")>>
      [] st = "nil" -> <<Reserved("Nil")>>

LexCommand(src) ==
    (IF src.operation = "ident" THEN <<Ident("f")>>
     ELSE <<InstanceVar("x"), Punct("Dot"), Ident("f")>>)
    \o LexStarter(src.starter)
    \o (IF src.more THEN <<Punct("Comma"), NumLit(2)>> ELSE << >>)

\* Keyword arguments: `f(...)` ("paren") or `f ...` ("command") whose
\* argument list is lead positional arguments `1` followed by the keyword
\* arguments `k: 2` and, when keys is 2, `m: 3`.  When local holds the
\* statement `k = 0` comes first, so that the key k is a local variable.
KwPrograms ==
    [family : {"kwarg"}, call : {"paren", "command"}, lead : 0..1, keys : 1..2,
     local : BOOLEAN]

LexKwItems(src) ==
    (IF src.lead = 1 THEN <<NumLit(1), Punct("Comma")>> ELSE << >>)
    \o <<Ident("k"), Punct("Colon"), NumLit(2)>>
    \o (IF src.keys = 2 THEN <<Punct("Comma"), Ident("m"), Punct("Colon"), NumLit(3)>>
        ELSE << >>)

LexKw(src) ==
    (IF src.local THEN <<Ident("k"), Punct("Assign"), NumLit(0), LineTerm>> ELSE << >>)
    \o <<Ident("f")>>
    \o (IF src.call = "paren"
        THEN <<Punct("LParen")>> \o LexKwItems(src) \o <<Punct("RParen")>>
        ELSE LexKwItems(src))

\* Interpolated strings: the chunks "a", "b", "c" with an embedded
\* expression between each two; "nested" is the interpolated string
\* "n#{7}m" as the whole embedded expression, "concat" the same string after
\* `x +`.
Embedded == {"ident", "integer", "nested", "concat"}

Chunks == <<"a", "b", "c">>

InterpPrograms == [family : {"interp"}, exprs : SeqsFromTo(Embedded, 1, 2)]

LexNested == <<OpenDoubleQuote("n"), NumLit(7), CloseDoubleQuote("m")>>

LexEmbedded(e) ==
    CASE e = "ident" -> <<Ident("x")>>
      [] e = "integer" -> <<NumLit(1)>>
      [] e = "nested" -> LexNested
      [] e = "concat" -> <<Ident("x"), Punct("Plus")>> \o LexNested

RECURSIVE LexInterpRest(_, _)
LexInterpRest(exprs, i) ==
    IF i > Len(exprs) THEN << >>
    ELSE LexEmbedded(exprs[i])
         \o <<IF i = Len(exprs) THEN CloseDoubleQuote(Chunks[i + 1])
              ELSE IntermediateDoubleQuote(Chunks[i + 1])>>
         \o LexInterpRest(exprs, i + 1)

LexInterp(src) == <<OpenDoubleQuote(Chunks[1])>> \o LexInterpRest(src.exprs, 1)

\* Lookahead: `x = e' for an expression e that begins with `-' or is a
\* hash literal, the two places that save the parser state.
Lookaheads ==
    {"neg_int", "neg_float", "neg_ident", "neg_neg", "neg_paren", "neg_eof",
     "hash_sym", "hash_arrow", "hash_mixed", "hash_str", "hash_neg", "hash_eof",
     "hash_in_hash"}

LookPrograms == [family : {"look"}, form : Lookaheads]

LexLook(src) ==
    <<Ident("x"), Punct("Assign")>> \o
    (CASE src.form = "neg_int" -> <<Punct("Minus"), NumLit(5)>>
       [] src.form = "neg_float" -> <<Punct("Minus"), FloatLit(5)>>
       [] src.form = "neg_ident" -> <<Punct("Minus"), Ident("y")>>
       [] src.form = "neg_neg" -> <<Punct("Minus"), Punct("Minus"), NumLit(5)>>
       [] src.form = "neg_paren" ->
              <<Punct("Minus"), Punct("LParen"), NumLit(1), Punct("RParen")>>
       [] src.form = "neg_eof" -> <<Punct("Minus")>>
       [] src.form = "hash_sym" ->
              <<Punct("LBrace"), Ident("a"), Punct("Colon"), NumLit(1), Punct("RBrace")>>
       [] src.form = "hash_arrow" ->
              <<Punct("LBrace"), Ident("a"), Punct("FatArrow"), NumLit(1), Punct("RBrace")>>
       [] src.form = "hash_mixed" ->
              <<Punct("LBrace"), Ident("a"), Punct("FatArrow"), NumLit(1), Punct("Comma"),
                Ident("b"), Punct("Colon"), Punct("Minus"), NumLit(2), Punct("RBrace")>>
       [] src.form = "hash_str" ->
              <<Punct("LBrace"), StringLit("s"), Punct("FatArrow"), NumLit(1),
                Punct("RBrace")>>
       [] src.form = "hash_neg" ->
              <<Punct("LBrace"), Punct("Minus"), NumLit(1), Punct("FatArrow"),
                Punct("Minus"), Ident("y"), Punct("RBrace")>>
       [] src.form = "hash_eof" -> <<Punct("LBrace"), Ident("a")>>
       [] src.form = "hash_in_hash" ->
              <<Punct("LBrace"), Ident("a"), Punct("FatArrow"), Punct("LBrace"),
                Ident("b"), Punct("Colon"), NumLit(1), Punct("RBrace"), Punct("RBrace")>>)

\* Equality: one or two equality operators between the operands 1, b, 3,
\* as a statement, the right-hand side of an assignment, in parentheses,
\* as the argument of a call, embedded in a string, or with the second
\* operator on a line of its own.
EqPuncts == {"Eq", "Ne", "TEq"}

EqPlaces == {"stmt", "assign", "paren", "arg", "interp", "newline"}

EqPrograms == [family : {"eq"}, ops : SeqsFromTo(EqPuncts, 1, 2), place : EqPlaces]

LexEqChain(src) ==
    <<NumLit(1), Punct(src.ops[1]), Ident("b")>>
    \o (IF Len(src.ops) = 2
        THEN (IF src.place = "newline" THEN <<LineTerm>> ELSE << >>)
             \o <<Punct(src.ops[2]), NumLit(3)>>
        ELSE << >>)

LexEq(src) ==
    CASE src.place \in {"stmt", "newline"} -> LexEqChain(src)
      [] src.place = "assign" -> <<Ident("x"), Punct("Assign")>> \o LexEqChain(src)
      [] src.place = "paren" -> <<Punct("LParen")>> \o LexEqChain(src) \o <<Punct("RParen")>>
      [] src.place = "arg" ->
             <<Ident("f"), Punct("LParen")>> \o LexEqChain(src) \o <<Punct("RParen")>>
      [] src.place = "interp" ->
             <<OpenDoubleQuote("a")>> \o LexEqChain(src) \o <<CloseDoubleQuote("b")>>

\* Closers: a string "a#{..}b" whose embedded code is, or ends with, a
\* token that ends a statement list: `)', `]', `end', `else', `when'.
Closers == {"RParen", "RBracket", "End", "Else", "Elsif", "When"}

CloserPrograms == [family : {"closer"}, closer : Closers, after_ident : BOOLEAN]

LexCloser(src) ==
    <<OpenDoubleQuote("a")>>
    \o (IF src.after_ident THEN <<Ident("x")>> ELSE << >>)
    \o <<IF src.closer \in {"RParen", "RBracket"}
         THEN Punct(src.closer) ELSE Reserved(src.closer)>>
    \o <<CloseDoubleQuote("b")>>

\* Scoped: one scope or two nested ones around `x = 1', then `g(x)' at the
\* top level; with top, `y = 1' comes first.
ScopedPrograms ==
    [family : {"scoped"}, kinds : SeqsFromTo(ScopeKinds, 1, 2), top : BOOLEAN]

LexScopedProgram(src) ==
    (IF src.top THEN <<Ident("y"), Punct("Assign"), NumLit(1), LineTerm>> ELSE << >>)
    \o LexScoped(src.kinds, <<Ident("x"), Punct("Assign"), NumLit(1)>>)
    \o <<LineTerm, Ident("g"), Punct("LParen"), Ident("x"), Punct("RParen")>>

\* Minus: a `-' where parse_primary is reached without parse_unary_minus:
\* after `**', after `!' or `~', and in the targets of a multiple
\* assignment; the operand a number or an identifier.
MinusPlaces == {"exponent", "not", "bitnot", "target"}

MinusPrograms == [family : {"minus"}, place : MinusPlaces, operand : {"number", "ident"}]

LexMinus(src) ==
    LET operand == IF src.operand = "number" THEN NumLit(5) ELSE Ident("y")
    IN  CASE src.place = "exponent" ->
                <<NumLit(2), Punct("DMul"), Punct("Minus"), operand>>
          [] src.place = "not" -> <<Punct("Not"), Punct("Minus"), operand>>
          [] src.place = "bitnot" -> <<Punct("BitNot"), Punct("Minus"), operand>>
          [] src.place = "target" ->
                <<Ident("x"), Punct("Comma"), Punct("Minus"), operand,
                  Punct("Assign"), NumLit(1), Punct("Comma"), NumLit(2)>>

\* Deep: a class, module or def inside a block or lambda inside a def.
DeepPrograms ==
    [family : {"deep"},
     kinds : {k \in [1..3 -> ScopeKinds] :
                 /\ k[1] = "def"
                 /\ k[2] \in {"do", "lambda"}
                 /\ k[3] \in {"class", "module", "def"}}]

\* Rhs: assignments whose right-hand side names the variable assigned, is
\* an assignment itself, or fails to parse.
RhsForms ==
    {"self", "call", "chain", "chain_self", "mul_self", "op_self", "prior",
     "fail", "fail_late", "fail_mul", "fail_op"}

RhsPrograms == [family : {"rhs"}, form : RhsForms]

LexRhs(src) ==
    CASE src.form = "self" -> <<Ident("x"), Punct("Assign"), Ident("x")>>
      [] src.form = "call" ->
             <<Ident("x"), Punct("Assign"), Ident("f"), Punct("LParen"), Ident("x"),
               Punct("RParen")>>
      [] src.form = "chain" ->
             <<Ident("a"), Punct("Assign"), Ident("b"), Punct("Assign"), NumLit(1)>>
      [] src.form = "chain_self" ->
             <<Ident("a"), Punct("Assign"), Ident("b"), Punct("Assign"), Ident("a")>>
      [] src.form = "mul_self" ->
             <<Ident("x"), Punct("Comma"), Ident("y"), Punct("Assign"),
               Ident("y"), Punct("Comma"), Ident("x")>>
      [] src.form = "op_self" -> <<Ident("x"), AssignOp("Add"), Ident("x")>>
      [] src.form = "prior" ->
             <<Ident("x"), Punct("Assign"), NumLit(1), LineTerm,
               Ident("x"), Punct("Assign"), Ident("x")>>
      [] src.form = "fail" -> <<Ident("x"), Punct("Assign"), Punct("RParen")>>
      [] src.form = "fail_late" ->
             <<Ident("x"), Punct("Assign"), NumLit(1), Punct("Plus")>>
      [] src.form = "fail_mul" ->
             <<Ident("x"), Punct("Comma"), Ident("y"), Punct("Assign"),
               NumLit(1), Punct("Comma"), Punct("RParen")>>
      [] src.form = "fail_op" -> <<Ident("x"), AssignOp("Add"), Punct("RParen")>>

Programs ==
    StmtPrograms \cup ParamPrograms \cup NestPrograms \cup DeclPrograms
    \cup TargetPrograms \cup ReplPrograms \cup EofPrograms
    \cup ExpPrograms \cup CommandPrograms \cup KwPrograms
    \cup InterpPrograms \cup LookPrograms
    \cup EqPrograms \cup CloserPrograms \cup ScopedPrograms
    \cup MinusPrograms \cup DeepPrograms \cup RhsPrograms

Lex(src) ==
    (CASE src.family = "stmts" ->
            Join([i \in 1..Len(src.stmts) |-> LexStmt(src.stmts[i])], <<Punct("Semi")>>)
       [] src.family = "params" -> LexParams(src)
       [] src.family = "nest" -> LexNest(src.kinds)
       [] src.family = "decl" -> LexDecl(src)
       [] src.family = "targets" -> LexTargets(src)
       [] src.family = "repl" -> LexRepl(src)
       [] src.family = "eof" -> LexEof(src)
       [] src.family = "exp" -> LexExp(src)
       [] src.family = "command" -> LexCommand(src)
       [] src.family = "kwarg" -> LexKw(src)
       [] src.family = "interp" -> LexInterp(src)
       [] src.family = "look" -> LexLook(src)
       [] src.family = "eq" -> LexEq(src)
       [] src.family = "closer" -> LexCloser(src)
       [] src.family = "scoped" -> LexScopedProgram(src)
       [] src.family = "minus" -> LexMinus(src)
       [] src.family = "deep" -> LexNest(src.kinds)
       [] src.family = "rhs" -> LexRhs(src))
    \o <<EOF>>

(***************************************************************************)
(* ParseSpec: parse_program applied to the tokens of a program text.       *)
(***************************************************************************)
NoResult == [ok |-> FALSE, err |-> "NotRun", msg |-> ""]

NoOp == [op |-> "none"]

\* No program text.
NoSource == [family |-> "none"]

\* The VM of a run that executes nothing.
NoVm == [exec_stack |-> << >>, calls |-> << >>, context |-> [self_value |-> [tag |-> "Nil"]]]

Run(F(_), input) == F(input)

Run2(F(_, _), input, more) == F(input, more)

ParseInit ==
    /\ source \in Programs
    /\ tokens = Lex(source)
    /\ result = NoResult
    /\ vm = NoVm
    /\ pc = "parse"
    /\ context_stack = << >>
    /\ collector = LvarCollector_new
    /\ last = NoOp

ParseProgram ==
    /\ pc = "parse"
    /\ result' = Run(parse_program, tokens)
    /\ pc' = "parsed"
    /\ UNCHANGED <<vm, source, tokens, context_stack, collector, last>>

\* parse_program_repl on the first line of a session.
ParseProgramRepl ==
    /\ pc = "parse"
    /\ result' = Run2(parse_program_repl, tokens, NoCollector)
    /\ pc' = "parsed_repl"
    /\ UNCHANGED <<vm, source, tokens, context_stack, collector, last>>

ParseNext == ParseProgram \/ ParseProgramRepl

ParseSpec == ParseInit /\ [][ParseNext]_vars

(***************************************************************************)
(* ReplSpec: a session of the REPL.  Each line is parsed by                *)
(* parse_program_repl with the LvarCollector the line before returned; the *)
(* parser of a line is a new one (parse_program_repl consumes its parser), *)
(* and the caller either sets its ident_table to the one the line before   *)
(* returned or leaves it empty.                                            *)
(***************************************************************************)
MaxLines == 3

\* The lines: `v = 1', `f(v)' and `v'.
ReplLines == [form : {"assign", "call", "ref"}, v : Vars]

Names == Vars \cup {"f"}

Run3(F(_, _, _), a, b, c) == F(a, b, c)

\* The LvarId of the identifier name under table and lvar, None when it has
\* none.
LvarOf(table, lvar, name) ==
    IF \E i \in 1..Len(table) : table[i] = name /\ contains_key(lvar.table, i)
    THEN lvar.table[IdentIndex(table, name)]
    ELSE None

ReplInit ==
    /\ collector = LvarCollector_new
    /\ pc = "repl"
    /\ last = [op |-> "none", lines |-> 0, carried |-> TRUE, ident_table |-> << >>,
                given |-> [n \in Names |-> None], assigned |-> {},
                before |-> LvarCollector_new]
    /\ context_stack = << >>
    /\ source = NoSource
    /\ tokens = << >>
    /\ result = NoResult
    /\ vm = NoVm

\* The next line of the session.  The session keeps the collector and the
\* ident_table a successful call returns; last.given is the LvarId each name
\* had when it first had one, last.assigned the names assigned so far.
ReplLine(line, carry) ==
    /\ pc = "repl"
    /\ last.lines < MaxLines
    /\ LET toks == LexStmt(line) \o <<EOF>>
           self == [Parser_new(<< >>) EXCEPT
                       !.ident_table = IF carry THEN last.ident_table ELSE << >>]
       IN  \E r \in {Run3(parse_program_repl_self, self, toks, SomeCollector(collector))} :
           /\ result' = r
           /\ tokens' = toks
           /\ source' = [family |-> "line", line |-> line, carry |-> carry]
           /\ collector' = IF r.ok THEN r.lvar_collector ELSE collector
           /\ last' = [op |-> "parse_program_repl",
                       lines |-> last.lines + 1,
                       carried |-> last.carried /\ carry,
                       ident_table |-> IF r.ok THEN r.ident_table ELSE last.ident_table,
                       given |-> [n \in Names |->
                                    IF last.given[n] # None \/ ~r.ok THEN last.given[n]
                                    ELSE LvarOf(r.ident_table, r.lvar_collector, n)],
                       assigned |-> last.assigned
                                    \cup (IF line.form = "assign" THEN {line.v} ELSE {}),
                       before |-> collector]
    /\ UNCHANGED <<vm, context_stack, pc>>

ReplNext == \E line \in ReplLines, carry \in BOOLEAN : ReplLine(line, carry)

ReplSpec == ReplInit /\ [][ReplNext]_vars

(***************************************************************************)
(* LvarSpec: the calls of one LvarCollector.  A call that returns Err ends *)
(* the run: the parser gives the error up to its caller and stops.         *)
(***************************************************************************)
MaxIdents == 3

IdentIds == 1..MaxIdents

LvarInit ==
    /\ collector = LvarCollector_new
    /\ pc = "lvar"
    /\ last = NoOp
    /\ context_stack = << >>
    /\ source = NoSource
    /\ tokens = << >>
    /\ result = NoResult
    /\ vm = NoVm

Insert(val) ==
    /\ pc = "lvar"
    /\ LET r == insert(collector, val)
       IN  /\ collector' = r.lvar
           /\ last' = [op |-> "insert", val |-> val, ret |-> r.ret, is_err |-> FALSE,
                       before |-> collector]
    /\ UNCHANGED <<vm, pc, context_stack, source, tokens, result>>

InsertNew(val) ==
    /\ pc = "lvar"
    /\ LET r == insert_new(collector, val)
       IN  /\ collector' = r.lvar
           /\ last' = [op |-> "insert_new", val |-> val, ret |-> r.ret,
                       is_err |-> r.is_err, before |-> collector]
           /\ pc' = IF r.is_err THEN "error" ELSE "lvar"
    /\ UNCHANGED <<vm, context_stack, source, tokens, result>>

InsertBlockParam(val) ==
    /\ pc = "lvar"
    /\ LET r == insert_block_param(collector, val)
       IN  /\ collector' = r.lvar
           /\ last' = [op |-> "insert_block_param", val |-> val, ret |-> r.ret,
                       is_err |-> r.is_err, before |-> collector]
           /\ pc' = IF r.is_err THEN "error" ELSE "lvar"
    /\ UNCHANGED <<vm, context_stack, source, tokens, result>>

LvarNext ==
    \E val \in IdentIds :
        \/ Insert(val)
        \/ InsertNew(val)
        \/ InsertBlockParam(val)

LvarSpec == LvarInit /\ [][LvarNext]_vars

(***************************************************************************)
(* Spec: the scope stack.  The parse has reached a point inside nested     *)
(* scopes: context_stack holds the frame of the top level (a Class frame,  *)
(* pushed by parse_program) and above it the frames pushed by `def`        *)
(* (Method), `class`/`module` (Class) and blocks and lambdas (Block), each *)
(* with the locals declared in it so far.  There, an identifier is looked  *)
(* up (is_local_var) or the next statement is parsed (parse_stmt).  The    *)
(* identifiers are interned beforehand (ScopeIdents), so that an           *)
(* identifier has the same IdentId in the frames and in the statement.     *)
(***************************************************************************)
MaxDepth == 3

ScopeIdents == <<"x", "y", "f">>

ScopeIds == 1..Len(ScopeIdents)

\* The LvarCollector after insert of the identifiers of ids, in that order.
RECURSIVE LvarCollectorOf(_)
LvarCollectorOf(ids) ==
    IF ids = << >> THEN LvarCollector_new
    ELSE insert(LvarCollectorOf(SubSeq(ids, 1, Len(ids) - 1)), ids[Len(ids)]).lvar

FrameLocals == {<< >>, <<1>>, <<2>>, <<1, 2>>}

Frames == [lvar : {LvarCollectorOf(ids) : ids \in FrameLocals},
           kind : {"Method", "Class", "Block"}]

\* parse_primary refuses `class` and `module` when the current frame is a
\* Method frame, so no Class frame lies directly on a Method frame.
ScopeStacks ==
    {s \in SeqsFromTo(Frames, 1, MaxDepth) :
        /\ s[1].kind = "Class"
        /\ \A i \in 2..Len(s) : ~(s[i].kind = "Class" /\ s[i - 1].kind = "Method")}

ScopeInit ==
    /\ context_stack \in ScopeStacks
    /\ pc = "scope"
    /\ last = NoOp
    /\ collector = LvarCollector_new
    /\ source = NoSource
    /\ tokens = << >>
    /\ result = NoResult
    /\ vm = NoVm

\* Parser::is_local_var(id) on the stack.
Lookup(id) ==
    /\ pc = "scope"
    /\ pc' = "looked"
    /\ last' = [op |-> "is_local_var", id |-> id,
                ret |-> is_local_var(context_stack, id)]
    /\ UNCHANGED <<vm, context_stack, collector, source, tokens, result>>

\* parse_stmt on the next statement.
ScopeStmts == [form : {"assign", "opassign", "mulassign", "ref"}, v : Vars]

StmtParser(stack, st) ==
    [Parser_new(LexStmt(st) \o <<EOF>>) EXCEPT
        !.context_stack = stack, !.ident_table = ScopeIdents]

Statement(st) ==
    /\ pc = "scope"
    /\ \E r \in {Call("parse_stmt", <<StmtParser(context_stack, st)>>)} :
           /\ context_stack' = r.p.context_stack
           /\ pc' = IF r.ok THEN "parsed" ELSE "error"
           /\ last' = [op |-> "stmt", stmt |-> st, ok |-> r.ok,
                       node |-> IF r.ok THEN r.node ELSE Unit,
                       before |-> context_stack]
    /\ UNCHANGED <<vm, collector, source, tokens, result>>

\* parse_stmt on a statement that opens one scope, x first assigned in it:
\* `def m', `class A', `f do' or `-> {' around `x = 1'.
Constructs == {"def", "class", "do", "lambda"}

Construct(kind) ==
    /\ pc = "scope"
    /\ \E r \in {Call("parse_stmt",
                      <<[Parser_new(LexScoped(<<kind>>,
                                              <<Ident("x"), Punct("Assign"), NumLit(1)>>)
                                    \o <<EOF>>) EXCEPT
                            !.context_stack = context_stack,
                            !.ident_table = ScopeIdents]>>)} :
           /\ context_stack' = r.p.context_stack
           /\ pc' = IF r.ok THEN "parsed" ELSE "error"
           /\ last' = [op |-> "construct", kind |-> kind, ok |-> r.ok,
                       node |-> IF r.ok THEN r.node ELSE Unit,
                       before |-> context_stack]
    /\ UNCHANGED <<vm, collector, source, tokens, result>>

ScopeNext ==
    \/ \E id \in ScopeIds : Lookup(id)
    \/ \E st \in ScopeStmts : Statement(st)
    \/ \E kind \in Constructs : Construct(kind)

Spec == ScopeInit /\ [][ScopeNext]_vars

(***************************************************************************)
(* The instruction set (src/src/vm/vm_inst.rs): the opcodes of Inst and    *)
(* Inst::inst_size.                                                        *)
(***************************************************************************)
PUSH_FIXNUM == 1
PUSH_FLONUM == 2
PUSH_TRUE == 3
PUSH_FALSE == 4
PUSH_NIL == 5
PUSH_STRING == 6
PUSH_SYMBOL == 7
PUSH_SELF == 8
ADD == 10
SUB == 11
MUL == 12
DIV == 13
REM == 14
EQ == 15
NE == 16
TEQ == 17
GT == 18
GE == 19
NOT == 20
SHR == 21
SHL == 22
BIT_OR == 23
BIT_AND == 24
BIT_XOR == 25
BIT_NOT == 26
ADDI == 27
SUBI == 28
POW == 29
SET_LOCAL == 30
GET_LOCAL == 31
GET_CONST == 32
SET_CONST == 33
GET_CONST_TOP == 34
GET_SCOPE == 35
GET_INSTANCE_VAR == 36
SET_INSTANCE_VAR == 37
GET_GLOBAL_VAR == 90
SET_GLOBAL_VAR == 91
GET_ARRAY_ELEM == 38
SET_ARRAY_ELEM == 39
SEND == 40
SEND_SELF == 41
CHECK_LOCAL == 42
CREATE_RANGE == 50
CREATE_ARRAY == 51
CREATE_PROC == 52
CREATE_HASH == 53
CREATE_REGEXP == 54
POP == 60
DUP == 63
\* Inst::TAKE (TAKE alone is a keyword of TLA+).
Inst_TAKE == 64
SPLAT == 65
CONCAT_STRING == 61
TO_S == 62
DEF_CLASS == 70
DEF_METHOD == 71
DEF_CLASS_METHOD == 72
JMP == 80
JMP_IF_FALSE == 81
END == 0
RETURN == 82
OPT_CASE == 83

\* Every opcode Inst defines.
Opcodes ==
    {PUSH_FIXNUM, PUSH_FLONUM, PUSH_TRUE, PUSH_FALSE, PUSH_NIL,
     PUSH_STRING, PUSH_SYMBOL, PUSH_SELF, ADD, SUB, MUL, DIV, REM, EQ, NE,
     TEQ, GT, GE, NOT, SHR, SHL, BIT_OR, BIT_AND, BIT_XOR, BIT_NOT, ADDI,
     SUBI, POW, SET_LOCAL, GET_LOCAL, GET_CONST, SET_CONST, GET_CONST_TOP,
     GET_SCOPE, GET_INSTANCE_VAR, SET_INSTANCE_VAR, GET_GLOBAL_VAR,
     SET_GLOBAL_VAR, GET_ARRAY_ELEM, SET_ARRAY_ELEM, SEND, SEND_SELF,
     CHECK_LOCAL, CREATE_RANGE, CREATE_ARRAY, CREATE_PROC, CREATE_HASH,
     CREATE_REGEXP, POP, DUP, Inst_TAKE, SPLAT, CONCAT_STRING, TO_S, DEF_CLASS,
     DEF_METHOD, DEF_CLASS_METHOD, JMP, JMP_IF_FALSE, END, RETURN,
     OPT_CASE}

\* An opcode byte (u8).
Bytes == 0..255

\* Inst::inst_size: an arm for each listed opcode, 1 for every other byte.
inst_size(inst) ==
    CASE inst \in {END, PUSH_NIL, PUSH_TRUE, PUSH_FALSE, PUSH_SELF, SUB, DIV, REM, POW,
                    EQ, NE, GT, GE, NOT, SHR, SHL, BIT_OR, BIT_AND, BIT_XOR, BIT_NOT,
                    CONCAT_STRING, CREATE_RANGE, CREATE_REGEXP, TO_S, SPLAT, POP, RETURN} -> 1
      [] inst \in {PUSH_STRING, PUSH_SYMBOL, GET_CONST, SET_CONST, GET_CONST_TOP,
                    GET_SCOPE, GET_INSTANCE_VAR, SET_INSTANCE_VAR, GET_GLOBAL_VAR,
                    SET_GLOBAL_VAR, GET_ARRAY_ELEM, SET_ARRAY_ELEM, CREATE_ARRAY,
                    CREATE_PROC, JMP, JMP_IF_FALSE, DUP, Inst_TAKE, ADD, MUL, ADDI, SUBI,
                    CREATE_HASH} -> 5
      [] inst \in {PUSH_FIXNUM, PUSH_FLONUM, SET_LOCAL, GET_LOCAL, DEF_METHOD,
                    DEF_CLASS_METHOD} -> 9
      [] inst = DEF_CLASS -> 10
      [] inst = OPT_CASE -> 13
      [] inst \in {SEND, SEND_SELF} -> 21
      [] OTHER -> 1

(***************************************************************************)
(* Values and the VM, as the builtins use them.  A Value is a record with  *)
(* a tag; Option<MethodRef> is << >> (None) or <<m>> (Some(m)); a VMResult *)
(* is [ok |-> TRUE, val, vm] or [ok |-> FALSE, err, msg, vm], vm being the *)
(* VM the call leaves behind.  A fixnum is an integer well inside i64, so  *)
(* that `end + 1` does not wrap.                                           *)
(***************************************************************************)
Value_nil == [tag |-> "Nil"]

Value_fixnum(i) == [tag |-> "Fixnum", v |-> i]

Value_array_from(v) == [tag |-> "Array", elements |-> v]

Value_range(start, end, exclude) ==
    [tag |-> "Range", start |-> start, end |-> end, exclude |-> exclude]

Value_enumerator(base, method, args) ==
    [tag |-> "Enumerator", base |-> base, method |-> method, args |-> args]

\* The class object Enumerator.
Value_class_Enumerator == [tag |-> "Class", name |-> "Enumerator"]

NoMethod == << >>

SomeMethod(method) == <<method>>

\* Args::new0, Args::new1 and an Args of any length.
Args_new(self_value, block, args) ==
    [self_value |-> self_value, block |-> block, args |-> args]

Args_new0(self_value, block) == Args_new(self_value, block, << >>)

Args_new1(self_value, block, arg) == Args_new(self_value, block, <<arg>>)

VMOk(val, v) == [ok |-> TRUE, val |-> val, vm |-> v]

VMErr(err, msg, v) == [ok |-> FALSE, err |-> err, msg |-> msg, vm |-> v]

\* `?' on a VMResult.
VMTry(r, K(_)) == IF r.ok THEN K(r) ELSE r

\* VM::error_argument and VM::error_type.
error_argument(v, msg) == VMErr("ArgumentError", msg, v)

error_type(v, msg) == VMErr("TypeError", msg, v)

\* Value::expect_fixnum.
expect_fixnum(v, val, msg) ==
    IF val.tag = "Fixnum" THEN VMOk(val.v, v)
    ELSE error_type(v, msg \o " must be an Integer.")

\* The blocks of the program, by MethodRef.  MethodRef 0 is the placeholder
\* with_index hands to the base method; 1 is {|x| x * x}, 2 is
\* {|x, i| [x, i]} and 3 is {|x| 6 / (x - 2)}, which raises for x = 2.
PlaceholderBlock == 0

Blocks == 1..3

\* An argument of a block that receives fewer arguments is nil.
BlockArg(args, n) == IF n <= Len(args.args) THEN args.args[n] ELSE Value_nil

\* What the body of block m evaluates to: [ok |-> TRUE, val] or an error.
BlockBody(m, args) ==
    LET x == BlockArg(args, 1)
    IN  CASE m = 1 ->
               IF x.tag = "Fixnum" THEN [ok |-> TRUE, val |-> Value_fixnum(x.v * x.v)]
               ELSE [ok |-> FALSE, err |-> "NoMethodError"]
          [] m = 2 ->
               [ok |-> TRUE, val |-> Value_array_from(<<x, BlockArg(args, 2)>>)]
          [] m = 3 ->
               IF x.tag # "Fixnum" THEN [ok |-> FALSE, err |-> "NoMethodError"]
               ELSE IF x.v = 2 THEN [ok |-> FALSE, err |-> "ZeroDivisionError"]
               ELSE [ok |-> TRUE, val |-> Value_fixnum(6 \div (x.v - 2))]

\* The invocation is written to the log of the VM.
Invoked(v, m, args) == [v EXCEPT !.calls = Append(@, [block |-> m, args |-> args.args])]

\* VM::vm_run on the iseq of block m: the body runs and leaves its value on
\* the value stack.
vm_run(v, m, args) ==
    LET b == BlockBody(m, args)
        w == Invoked(v, m, args)
    IN  IF b.ok THEN VMOk(Value_nil, [w EXCEPT !.exec_stack = Append(@, b.val)])
        ELSE VMErr(b.err, "", w)

\* VM::eval_block: the body runs and its value is returned.
eval_block(v, m, args) ==
    LET b == BlockBody(m, args)
        w == Invoked(v, m, args)
    IN  IF b.ok THEN VMOk(b.val, w) ELSE VMErr(b.err, "", w)

\* VM::stack_pop: [val, vm].
stack_pop(v) ==
    [val |-> v.exec_stack[Len(v.exec_stack)],
     vm |-> [v EXCEPT !.exec_stack = SubSeq(@, 1, Len(@) - 1)]]

\* MethodInfo::as_iseq of a block of the program.
as_iseq(v, m) == VMOk(m, v)

\* Value::as_range().unwrap() panics on a value that is no range.
IsRange(val) == val.tag = "Range"

VMPanic(v) == VMErr("Panic", "unwrap on None", v)

(***************************************************************************)
(* Range (src/src/builtin/range.rs).                                       *)
(***************************************************************************)
range_begin(v, args) ==
    IF IsRange(args.self_value) THEN VMOk(args.self_value.start, v) ELSE VMPanic(v)

range_end(v, args) ==
    IF IsRange(args.self_value) THEN VMOk(args.self_value.end, v) ELSE VMPanic(v)

\* `for i in start..end { v.push(Value::fixnum(i)) }'.
RECURSIVE push_fixnums(_, _, _)
push_fixnums(vec, i, end) ==
    IF i >= end THEN vec ELSE push_fixnums(Append(vec, Value_fixnum(i)), i + 1, end)

\* i64: a two's complement integer of IntBits bits stands for the 64-bit
\* one; `start + arg' leaves it the same way at any width.
IntBits == 6

MinInt == -(2 ^ (IntBits - 1))

MaxInt == 2 ^ (IntBits - 1) - 1

wrapping(n) == ((n - MinInt) % (2 ^ IntBits)) + MinInt

\* The result n of an i64 `+' or `-': n when it fits; otherwise a panic in
\* a build with overflow checks and the wrapped value in one without.
arith(v, n, overflow_checks) ==
    IF MinInt <= n /\ n <= MaxInt THEN VMOk(n, v)
    ELSE IF overflow_checks THEN VMErr("Panic", "arithmetic overflow", v)
    ELSE VMOk(wrapping(n), v)

\* `range.end.as_fixnum().unwrap() - if range.exclude { 1 } else { 0 }'.
range_last_fixnum(v, range, overflow_checks) ==
    IF range.end.tag # "Fixnum" THEN VMPanic(v)
    ELSE arith(v, range.end.v - (IF range.exclude THEN 1 ELSE 0), overflow_checks)

range_first(v, args, overflow_checks) ==
    IF ~IsRange(args.self_value) \/ args.self_value.start.tag # "Fixnum" THEN VMPanic(v)
    ELSE LET range == args.self_value
             start == range.start.v
         IN  VMTry(range_last_fixnum(v, range, overflow_checks), LAMBDA end :
             IF Len(args.args) = 0 THEN VMOk(range.start, v)
             ELSE VMTry(expect_fixnum(v, args.args[1], "Argument"), LAMBDA arg :
                  IF arg.val < 0 THEN error_argument(v, "Negative array size")
                  ELSE VMTry(arith(v, start + arg.val, overflow_checks), LAMBDA sum :
                       VMTry(arith(v, sum.val - 1, overflow_checks), LAMBDA bound :
                       LET last_ == IF bound.val < end.val THEN bound.val ELSE end.val
                       IN  VMOk(Value_array_from(push_fixnums(<< >>, start, last_ + 1)),
                                v)))))

range_last(v, args, overflow_checks) ==
    IF ~IsRange(args.self_value) \/ args.self_value.start.tag # "Fixnum" THEN VMPanic(v)
    ELSE LET range == args.self_value
             start == range.start.v
         IN  VMTry(range_last_fixnum(v, range, overflow_checks), LAMBDA end :
             IF Len(args.args) = 0 THEN VMOk(range.end, v)
             ELSE VMTry(expect_fixnum(v, args.args[1], "Argument"), LAMBDA arg :
                  IF arg.val < 0 THEN error_argument(v, "Negative array size")
                  ELSE VMTry(arith(v, end.val - arg.val, overflow_checks), LAMBDA diff :
                       VMTry(arith(v, diff.val + 1, overflow_checks), LAMBDA bound :
                       LET first_ == IF bound.val > start THEN bound.val ELSE start
                       IN  VMOk(Value_array_from(push_fixnums(<< >>, first_, end.val + 1)),
                                v)))))

\* range_toa without the test of range.exclude.
range_toa_inclusive(v, args) ==
    IF ~IsRange(args.self_value) THEN VMPanic(v)
    ELSE LET range == args.self_value
         IN  VMTry(expect_fixnum(v, range.start, "Range.start"), LAMBDA start :
             VMTry(expect_fixnum(v, range.end, "Range.end"), LAMBDA end :
             VMOk(Value_array_from(push_fixnums(<< >>, start.val, end.val + 1)), v)))

range_toa(v, args) ==
    IF ~IsRange(args.self_value) THEN VMPanic(v)
    ELSE LET range == args.self_value
         IN  VMTry(expect_fixnum(v, range.start, "Range.start"), LAMBDA start :
             VMTry(expect_fixnum(v, range.end, "Range.end"), LAMBDA end :
             IF range.exclude
             THEN VMOk(Value_array_from(push_fixnums(<< >>, start.val, end.val)), v)
             ELSE VMOk(Value_array_from(push_fixnums(<< >>, start.val, end.val + 1)), v)))

\* The loop of range_map: the block runs for i and its value is popped into
\* res.
RECURSIVE range_map_loop(_, _, _, _, _, _)
range_map_loop(v, iseq, context, res, i, end) ==
    IF i >= end THEN VMOk(Value_array_from(res), v)
    ELSE VMTry(vm_run(v, iseq, Args_new1(context.self_value, NoMethod, Value_fixnum(i))),
               LAMBDA r :
         LET popped == stack_pop(r.vm)
         IN  range_map_loop(popped.vm, iseq, context, Append(res, popped.val), i + 1, end))

range_map(v, args, block) ==
    IF ~IsRange(args.self_value) THEN VMPanic(v)
    ELSE IF block = NoMethod THEN error_argument(v, "Currently, needs block.")
    ELSE LET range == args.self_value
         IN  VMTry(as_iseq(v, block[1]), LAMBDA iseq :
             VMTry(expect_fixnum(v, range.start, "Start"), LAMBDA start :
             VMTry(expect_fixnum(v, range.end, "End"), LAMBDA end :
             range_map_loop(v, iseq.val, v.context, << >>, start.val,
                            end.val + (IF range.exclude THEN 0 ELSE 1)))))

\* range_each's loop leaving after its first iteration.
range_each_loop_once(v, iseq, context, self_value, i, end) ==
    IF i >= end THEN VMOk(self_value, v)
    ELSE VMTry(vm_run(v, iseq, Args_new1(context.self_value, NoMethod, Value_fixnum(i))),
               LAMBDA r : VMOk(self_value, stack_pop(r.vm).vm))

\* The loop of range_each: the block runs for i and its value is popped.
RECURSIVE range_each_loop(_, _, _, _, _, _)
range_each_loop(v, iseq, context, self_value, i, end) ==
    IF i >= end THEN VMOk(self_value, v)
    ELSE VMTry(vm_run(v, iseq, Args_new1(context.self_value, NoMethod, Value_fixnum(i))),
               LAMBDA r :
         range_each_loop(stack_pop(r.vm).vm, iseq, context, self_value, i + 1, end))

range_each(v, args, block) ==
    IF ~IsRange(args.self_value) THEN VMPanic(v)
    ELSE IF block = NoMethod THEN error_argument(v, "Currently, needs block.")
    ELSE LET range == args.self_value
         IN  VMTry(as_iseq(v, block[1]), LAMBDA iseq :
             VMTry(expect_fixnum(v, range.start, "Start"), LAMBDA start :
             VMTry(expect_fixnum(v, range.end, "End"), LAMBDA end :
             range_each_loop(v, iseq.val, v.context, args.self_value, start.val,
                             end.val + (IF range.exclude THEN 0 ELSE 1)))))

(***************************************************************************)
(* Enumerator (src/src/builtin/enumerator.rs).                             *)
(***************************************************************************)
Value_symbol(name) == [tag |-> "Symbol", id |-> name]

\* VM::check_args_num.
check_args_num(v, len, min, max) ==
    IF min <= len /\ len <= max THEN VMOk(Value_nil, v)
    ELSE error_argument(v, "Wrong number of arguments.")

\* VM::expect_enumerator.
expect_enumerator(v, val, msg) ==
    IF val.tag = "Enumerator" THEN VMOk(val, v) ELSE error_type(v, msg)

enum_new(v, args) ==
    VMTry(check_args_num(v, Len(args.args), 1, 65535), LAMBDA c :
    LET obj == args.args[1]
    IN  IF Len(args.args) = 1
        THEN VMOk(Value_enumerator(obj, "each", Args_new0(args.self_value, NoMethod)), v)
        ELSE IF args.args[2].tag # "Symbol"
        THEN error_argument(v, "2nd arg must be Symbol.")
        ELSE VMOk(Value_enumerator(obj, args.args[2].id,
                                   Args_new(args.self_value, NoMethod,
                                            SubSeq(args.args, 3, Len(args.args)))), v))

\* The methods VM::get_method finds: those init_range and init_enumerator
\* register that the model translates, and Array#map.
Methods ==
    {<<"Range", "to_a">>, <<"Range", "begin">>, <<"Range", "end">>,
     <<"Range", "each">>, <<"Range", "map">>,
     <<"Enumerator", "with_index">>, <<"Array", "map">>}

get_method(v, receiver, method) ==
    IF <<receiver.tag, method>> \in Methods THEN VMOk(<<receiver.tag, method>>, v)
    ELSE VMErr("NoMethodError", method, v)

\* `ary.elements.iter().enumerate().map(|(i, v)| ..)' of with_index, from
\* element i (1-based): the pairs as arrays.
RECURSIVE index_pairs(_, _)
index_pairs(elements, i) ==
    IF i > Len(elements) THEN << >>
    ELSE <<Value_array_from(<<elements[i], Value_fixnum(i - 1)>>)>>
         \o index_pairs(elements, i + 1)

\* with_index's loop counting the elements from 1.
RECURSIVE with_index_loop_from_one(_, _, _, _, _)
with_index_loop_from_one(v, block, elements, res, i) ==
    IF i > Len(elements) THEN VMOk(Value_array_from(res), v)
    ELSE VMTry(eval_block(v, block, Args_new(v.context.self_value, NoMethod,
                                             <<elements[i], Value_fixnum(i)>>)),
               LAMBDA val :
         with_index_loop_from_one(val.vm, block, elements, Append(res, val.val), i + 1))

\* The loop of with_index over res_ary, from element i (1-based).
RECURSIVE with_index_loop(_, _, _, _, _)
with_index_loop(v, block, elements, res, i) ==
    IF i > Len(elements) THEN VMOk(Value_array_from(res), v)
    ELSE VMTry(eval_block(v, block, Args_new(v.context.self_value, NoMethod,
                                             <<elements[i], Value_fixnum(i - 1)>>)),
               LAMBDA val :
         with_index_loop(val.vm, block, elements, Append(res, val.val), i + 1))

RECURSIVE with_index(_, _), eval_send(_, _, _)

\* VM::eval_send of a builtin method: the receiver is args.self_value.
\* Array#map handed the placeholder block answers the array itself.
eval_send(v, method, args) ==
    CASE method = <<"Range", "to_a">> -> range_toa(v, args)
      [] method = <<"Range", "begin">> -> range_begin(v, args)
      [] method = <<"Range", "end">> -> range_end(v, args)
      [] method = <<"Range", "each">> -> range_each(v, args, args.block)
      [] method = <<"Range", "map">> -> range_map(v, args, args.block)
      [] method = <<"Enumerator", "with_index">> -> with_index(v, args)
      [] method = <<"Array", "map">> ->
             IF args.self_value.tag = "Array" THEN VMOk(args.self_value, v)
             ELSE VMPanic(v)

with_index(v, args) ==
    VMTry(check_args_num(v, Len(args.args), 0, 0), LAMBDA c :
    VMTry(expect_enumerator(v, args.self_value, "Expect Enumerator."), LAMBDA eref :
    IF args.block = NoMethod
    THEN VMOk(Value_enumerator(args.self_value, "with_index", args), v)
    ELSE LET block == args.block[1]
             receiver == eref.val.base
         IN  VMTry(get_method(v, receiver, eref.val.method), LAMBDA method :
             VMTry(eval_send(v, method.val,
                             [eref.val.args EXCEPT !.block = SomeMethod(PlaceholderBlock)]),
                   LAMBDA val :
             IF val.val.tag # "Array" THEN error_type(val.vm, "Must be Array.")
             ELSE IF block = PlaceholderBlock
             THEN VMOk(Value_array_from(index_pairs(val.val.elements, 1)), val.vm)
             ELSE with_index_loop(val.vm, block, val.val.elements, << >>, 1)))))

\* Enumerator#each.
each(v, args) ==
    VMTry(check_args_num(v, Len(args.args), 0, 0), LAMBDA c :
    VMTry(expect_enumerator(v, args.self_value, "Expect Enumerator."), LAMBDA eref :
    IF args.block = NoMethod THEN VMOk(args.self_value, v)
    ELSE LET receiver == eref.val.base
         IN  VMTry(get_method(v, receiver, eref.val.method), LAMBDA each_method :
             eval_send(v, each_method.val, Args_new0(receiver, args.block)))))

(***************************************************************************)
(* Integer (src/src/vm/integer.rs).                                        *)
(***************************************************************************)
\* integer_times's loop going on after an invocation that raised.
RECURSIVE integer_times_loop_on(_, _, _, _, _)
integer_times_loop_on(v, iseq, receiver, i, num) ==
    IF i >= num THEN VMOk(receiver, v)
    ELSE LET r == vm_run(v, iseq, Args_new1(v.context.self_value, NoMethod,
                                            Value_fixnum(i)))
         IN  integer_times_loop_on(IF r.ok THEN stack_pop(r.vm).vm ELSE r.vm,
                                   iseq, receiver, i + 1, num)

\* The loop of integer_times: the block runs for i and its value is popped.
RECURSIVE integer_times_loop(_, _, _, _, _)
integer_times_loop(v, iseq, receiver, i, num) ==
    IF i >= num THEN VMOk(receiver, v)
    ELSE VMTry(vm_run(v, iseq, Args_new1(v.context.self_value, NoMethod, Value_fixnum(i))),
               LAMBDA r :
         integer_times_loop(stack_pop(r.vm).vm, iseq, receiver, i + 1, num))

integer_times(v, receiver, block) ==
    IF receiver.tag # "Fixnum" THEN VMPanic(v)
    ELSE LET num == receiver.v
         IN  IF num < 1 THEN VMOk(Value_nil, v)
             ELSE IF block = NoMethod THEN VMOk(Value_nil, v)
             ELSE VMTry(as_iseq(v, block[1]), LAMBDA iseq :
                  integer_times_loop(v, iseq.val, receiver, 0, num))

(***************************************************************************)
(* VmSpec: one call of a builtin or of Inst::inst_size.  Init draws the    *)
(* call (source) and the value stack the VM has when the call is made;     *)
(* the action of the called function runs it.                              *)
(***************************************************************************)
MaxFixnum == 3

MaxElems == 2

Fixnums == (-1)..MaxFixnum

FixnumValues == {Value_fixnum(i) : i \in Fixnums}

\* Ranges of fixnums, and ranges whose end is nil.
Ranges ==
    {Value_range(a, b, exclude) :
        a \in FixnumValues, b \in FixnumValues \cup {Value_nil}, exclude \in BOOLEAN}

Arrays ==
    {Value_array_from(elements) :
        elements \in SeqsFromTo({Value_fixnum(1), Value_fixnum(2)}, 0, MaxElems)}

\* The enumerator a method of base makes of its own arguments when it is
\* called without a block (`a.map').
EnumeratorOf(base, method) == Value_enumerator(base, method, Args_new0(base, NoMethod))

\* `Enumerator.new(base, :method)'.
EnumeratorNew(base, method) ==
    enum_new(NoVm, Args_new(Value_class_Enumerator, NoMethod,
                            <<base, Value_symbol(method)>>)).val

\* `a.map.with_index', as with_index without a block returns it.
EnumeratorWithIndex(e) == with_index(NoVm, Args_new0(e, NoMethod)).val

Enumerators ==
    {EnumeratorOf(a, "map") : a \in Arrays}
    \cup {EnumeratorWithIndex(EnumeratorOf(a, "map")) : a \in Arrays}
    \cup {EnumeratorOf(r, m) : r \in Ranges, m \in {"to_a", "begin"}}
    \cup {EnumeratorNew(r, "to_a") : r \in Ranges}

\* The enumerators of a range's each and map.
EachEnumerators ==
    {EnumeratorOf(r, m) : r \in Ranges, m \in {"each", "map"}}
    \cup {EnumeratorNew(r, "map") : r \in Ranges}

MethodOpts == {NoMethod} \cup {SomeMethod(m) : m \in Blocks}

\* The argument lists of first and last: none, a size (small, or at either
\* end of the machine integers), or nil.
Sizes == Fixnums \cup {MinInt, MaxInt - 1, MaxInt}

SizeArgs == {<< >>, <<Value_nil>>} \cup {<<Value_fixnum(n)>> : n \in Sizes}

VmCalls ==
    [builtin : {"inst_size"}, inst : Bytes]
    \cup [builtin : {"to_a", "each", "map"}, self_value : Ranges, block : MethodOpts]
    \cup [builtin : {"with_index"}, self_value : Enumerators,
          block : MethodOpts \cup {SomeMethod(PlaceholderBlock)}]
    \cup [builtin : {"times"}, self_value : FixnumValues, block : MethodOpts]
    \cup [builtin : {"enum_each"}, self_value : EachEnumerators, block : MethodOpts]
    \cup [builtin : {"first", "last"}, self_value : Ranges, args : SizeArgs,
          overflow_checks : BOOLEAN]

\* The value stacks a call may find.
Stacks == {<< >>, <<Value_fixnum(9)>>}

VmInit ==
    /\ source \in VmCalls
    /\ vm \in {[exec_stack |-> st, calls |-> << >>, context |-> [self_value |-> Value_nil]] :
                  st \in Stacks}
    /\ pc = "call"
    /\ result = NoResult
    /\ last = NoOp
    /\ context_stack = << >>
    /\ collector = LvarCollector_new
    /\ tokens = << >>

\* The call returns r: the VM is the one it leaves, last remembers the one
\* it found.
Return(r) ==
    /\ result' = [f \in (DOMAIN r) \ {"vm"} |-> r[f]]
    /\ vm' = r.vm
    /\ last' = [op |-> source.builtin, before |-> vm]
    /\ pc' = "returned"
    /\ UNCHANGED <<source, context_stack, collector, tokens>>

InstSize ==
    /\ pc = "call" /\ source.builtin = "inst_size"
    /\ Return(VMOk(inst_size(source.inst), vm))

RangeToA ==
    /\ pc = "call" /\ source.builtin = "to_a"
    /\ Return(range_toa(vm, Args_new0(source.self_value, source.block)))

RangeEach ==
    /\ pc = "call" /\ source.builtin = "each"
    /\ Return(range_each(vm, Args_new0(source.self_value, source.block), source.block))

RangeMap ==
    /\ pc = "call" /\ source.builtin = "map"
    /\ Return(range_map(vm, Args_new0(source.self_value, source.block), source.block))

WithIndex ==
    /\ pc = "call" /\ source.builtin = "with_index"
    /\ Return(with_index(vm, Args_new0(source.self_value, source.block)))

IntegerTimes ==
    /\ pc = "call" /\ source.builtin = "times"
    /\ Return(integer_times(vm, source.self_value, source.block))

EnumEach ==
    /\ pc = "call" /\ source.builtin = "enum_each"
    /\ Return(each(vm, Args_new0(source.self_value, source.block)))

RangeFirst ==
    /\ pc = "call" /\ source.builtin = "first"
    /\ Return(range_first(vm, Args_new(source.self_value, NoMethod, source.args),
                          source.overflow_checks))

RangeLast ==
    /\ pc = "call" /\ source.builtin = "last"
    /\ Return(range_last(vm, Args_new(source.self_value, NoMethod, source.args),
                         source.overflow_checks))

VmNext ==
    InstSize \/ RangeToA \/ RangeEach \/ RangeMap \/ WithIndex \/ IntegerTimes
    \/ EnumEach \/ RangeFirst \/ RangeLast

VmSpec == VmInit /\ [][VmNext]_vars

(***************************************************************************)
(* The claims.                                                             *)
(***************************************************************************)
\* The identifiers statement st assigns to.
Assigned(st) ==
    CASE st.form \in {"assign", "opassign"} -> {st.v}
      [] st.form = "mulassign" -> {st.v, Other(st.v)}
      [] OTHER -> {}

\* The identifiers assigned by the statements before the i-th.
AssignedBefore(stmts, i) == UNION {Assigned(stmts[j]) : j \in 1..(i - 1)}

\* C1: in a statement sequence of one scope, the argument x of a call
\* f(x) parses as a local variable when an assignment to x comes before
\* the call, and as an identifier (a method call) when none does, also when
\* an assignment to x follows.
C1_ScopeRule ==
    (pc = "parsed" /\ source.family = "stmts") =>
        /\ result.ok
        /\ \A i \in 1..Len(source.stmts) :
              source.stmts[i].form = "call" =>
                  LET arg == result.node.nodes[i].args[1]
                  IN  IF source.stmts[i].v \in AssignedBefore(source.stmts, i)
                      THEN arg.kind = "LocalVar"
                      ELSE arg.kind = "Ident"

C1_Witness ==
    /\ pc = "parsed"
    /\ source.family = "stmts"
    /\ source.stmts = <<[form |-> "assign", v |-> "x"], [form |-> "call", v |-> "x"]>>
    /\ result.ok
    /\ result.node.nodes[2].args[1].kind = "LocalVar"

\* The frames of stack that hold id with only Block frames above them.
VisibleFrames(stack, id) ==
    {i \in 1..Len(stack) :
        /\ id \in DOMAIN stack[i].lvar.table
        /\ \A j \in (i + 1)..Len(stack) : stack[j].kind = "Block"}

\* C2: is_local_var(id) is true exactly when id is held by the innermost
\* frame or by an enclosing frame reached from it through Block frames only.
C2_IsLocalVar ==
    last.op = "is_local_var" =>
        (last.ret <=> VisibleFrames(context_stack, last.id) # {})

C2_Witness ==
    /\ last.op = "is_local_var"
    /\ last.ret
    /\ Len(context_stack) = 3
    /\ VisibleFrames(context_stack, last.id) = {1}

\* The IdentId of a variable of the statements.
ScopeId(v) == IdentIndex(ScopeIdents, v)

\* C3: after an assignment to bare identifiers every one of them is a local
\* of the current scope; the innermost frame gets exactly the identifiers
\* that were not visible before, the entries it had stay as they were, and
\* no enclosing frame changes.
C3_AssignmentDeclares ==
    (last.op = "stmt" /\ Assigned(last.stmt) # {}) =>
        LET ids == {ScopeId(v) : v \in Assigned(last.stmt)}
            n == Len(last.before)
            old == last.before[n].lvar
            new == context_stack[n].lvar
            added == {id \in ids : ~is_local_var(last.before, id)}
        IN  /\ last.ok
            /\ Len(context_stack) = n
            /\ \A id \in ids : is_local_var(context_stack, id)
            /\ \A i \in 1..(n - 1) : context_stack[i] = last.before[i]
            /\ context_stack[n].kind = last.before[n].kind
            /\ DOMAIN new.table = DOMAIN old.table \cup added
            /\ \A k \in DOMAIN old.table : new.table[k] = old.table[k]
            /\ added = {} => new = old

C3_Witness ==
    /\ last.op = "stmt"
    /\ last.stmt = [form |-> "mulassign", v |-> "x"]
    /\ Len(context_stack) = 3
    /\ is_local_var(last.before, ScopeId("x"))
    /\ ~is_local_var(last.before, ScopeId("y"))
    /\ ScopeId("x") \notin DOMAIN last.before[3].lvar.table
    /\ DOMAIN context_stack[3].lvar.table = {ScopeId("y")}

\* C4: insert of a held IdentId returns its LvarId and changes nothing;
\* insert of a new one returns the counter and adds one to it; no entry is
\* removed or remapped.
C4_InsertIdempotentMonotone ==
    last.op = "insert" =>
        /\ \A k \in DOMAIN last.before.table :
              k \in DOMAIN collector.table /\ collector.table[k] = last.before.table[k]
        /\ IF last.val \in DOMAIN last.before.table
           THEN last.ret = last.before.table[last.val] /\ collector = last.before
           ELSE /\ last.ret = last.before.id
                /\ collector.id = last.before.id + 1
                /\ collector.table[last.val] = last.ret
                /\ DOMAIN collector.table = DOMAIN last.before.table \cup {last.val}

C4_Witness ==
    /\ last.op = "insert"
    /\ last.val \in DOMAIN last.before.table
    /\ Cardinality(DOMAIN collector.table) = 2
    /\ collector = last.before

\* C5 (as the specification states it): the LvarIds of a collector are
\* exactly 0..len-1, distinct identifiers have distinct LvarIds and the
\* counter is the length of the table.
C5_Dense ==
    /\ {collector.table[k] : k \in DOMAIN collector.table}
           = 0..(LvarCollector_len(collector) - 1)
    /\ \A j, k \in DOMAIN collector.table :
          j # k => collector.table[j] # collector.table[k]
    /\ collector.id = LvarCollector_len(collector)

\* The parameter list of source is out of order at or before position n:
\* some parameter follows a block parameter, a splat follows a splat or a
\* post-required parameter (a plain one after an optional or a splat), a
\* splat or plain parameter follows a keyword, or an optional parameter
\* follows a splat, a keyword or a post-required parameter.
PostRequired(ps, i) ==
    ps[i].kind = "plain" /\ \E h \in 1..(i - 1) : ps[h].kind \in {"opt", "splat"}

OutOfOrder(ps, n) ==
    \E i, j \in 1..n :
        /\ i < j
        /\ \/ ps[i].kind = "block"
           \/ ps[j].kind = "splat" /\ (ps[i].kind = "splat" \/ PostRequired(ps, i))
           \/ ps[i].kind = "kw" /\ ps[j].kind \in {"plain", "splat"}
           \/ ps[j].kind = "opt" /\ (ps[i].kind \in {"splat", "kw"} \/ PostRequired(ps, i))

\* The node kind the i-th parameter of an accepted list is recorded as.
Recorded(ps, i) ==
    CASE ps[i].kind = "opt" -> "OptionalParam"
      [] ps[i].kind = "splat" -> "RestParam"
      [] ps[i].kind = "kw" -> "KeywordParam"
      [] ps[i].kind = "block" -> "BlockParam"
      [] ps[i].kind = "plain" -> IF PostRequired(ps, i) THEN "PostParam" ELSE "Param"

ParamRank ==
    [Param |-> 0, OptionalParam |-> 1, RestParam |-> 2, PostParam |-> 3,
     KeywordParam |-> 4, BlockParam |-> 5]

DefParams == pc = "parsed" /\ source.family = "params" /\ source.where = "def"

\* C6: a parameter list out of order is rejected, and the parameters of an
\* accepted list are recorded in the order required, optional, rest,
\* post-required, keyword, block, with at most one rest parameter, a block
\* parameter last, and a plain parameter after an optional or rest one
\* recorded as post-required.
C6_ParamOrder ==
    DefParams =>
        LET ps == source.params
        IN  /\ OutOfOrder(ps, Len(ps)) => ~result.ok
            /\ result.ok =>
                  LET args == result.node.nodes[1].params
                  IN  /\ Len(args) = Len(ps)
                      /\ \A i \in 1..Len(ps) : args[i].kind = Recorded(ps, i)
                      /\ \A i, j \in 1..Len(ps) :
                            i < j => ParamRank[args[i].kind] <= ParamRank[args[j].kind]
                      /\ Cardinality({i \in 1..Len(ps) : args[i].kind = "RestParam"}) <= 1
                      /\ \A i \in 1..Len(ps) : args[i].kind = "BlockParam" => i = Len(ps)

C6_Witness ==
    /\ DefParams
    /\ result.ok
    /\ Len(source.params) = 3
    /\ [i \in 1..3 |-> result.node.nodes[1].params[i].kind]
          = <<"OptionalParam", "RestParam", "PostParam">>

\* The positions of source.params whose name occurs at an earlier position.
Repeats(ps) == {j \in 1..Len(ps) : \E i \in 1..(j - 1) : ps[i].name = ps[j].name}

FirstRepeat(ps) == CHOOSE j \in Repeats(ps) : \A k \in Repeats(ps) : j <= k

Duplicated == ~result.ok /\ result.err = "SyntaxError"
              /\ result.msg = "Duplicated argument name."

C8_NoDefInMethod ==
    (pc = "parsed" /\ source.family = "nest" /\ Len(source.kinds) = 2
       /\ source.kinds[1] = "def" /\ source.kinds[2] = "def") => ~result.ok

LegalTargetKinds == {"Ident", "InstanceVar", "GlobalVar", "Const", "ArrayMember", "Send"}

\* C9 (as the specification states it): an assignment with a target that is
\* no legal target is rejected, and the left-hand side of every multi-assign
\* node holds legal targets only.
C9_LegalTargetsOnly ==
    (pc = "parsed" /\ source.family = "targets") =>
        /\ (\E i \in 1..Len(source.lhs) : source.lhs[i] \in IllegalTargets) => ~result.ok
        /\ result.ok =>
              \A i \in 1..Len(result.node.nodes[1].mlhs) :
                  /\ result.node.nodes[1].mlhs[i].kind \in LegalTargetKinds
                  /\ result.node.nodes[1].mlhs[i].kind = "Send" =>
                        result.node.nodes[1].mlhs[i].receiver.kind # "SelfValue"

\* C10: `module A < B` is rejected with a syntax error, so that a module
\* declaration carries the placeholder constant (id 0) as its superclass,
\* as does a class declaration without `<`.
C10_ModuleSuperclass ==
    (pc = "parsed" /\ source.family = "decl") =>
        /\ (source.is_module /\ source.superclass # "") =>
              ~result.ok /\ result.err = "SyntaxError"
        /\ result.ok =>
              LET decl == result.node.nodes[1]
              IN  /\ decl.kind = "ClassDecl"
                  /\ decl.is_module = source.is_module
                  /\ decl.is_module => decl.superclass = new_const(0, FALSE)
                  /\ source.superclass = "" => decl.superclass = new_const(0, FALSE)

C10_Witness ==
    /\ pc = "parsed"
    /\ source.family = "decl"
    /\ source.is_module
    /\ source.superclass = "B"
    /\ ~result.ok
    /\ result.msg = "Unexpected '<'."

\* The `class` or `module` keywords of kinds that follow a `def` directly:
\* parse_primary rejects them and their scope is never opened.
RefusedScopes(kinds) ==
    {i \in 2..Len(kinds) : kinds[i] \in {"class", "module"} /\ kinds[i - 1] = "def"}

\* The scopes of a REPL line that are open where the line breaks off.
OpenScopes(src) ==
    IF RefusedScopes(src.kinds) # {}
    THEN (CHOOSE i \in RefusedScopes(src.kinds) :
              \A j \in RefusedScopes(src.kinds) : i <= j) - 1
    ELSE Len(src.kinds) - src.closed

\* C11: the error parse_program_repl returns for a line that breaks off with
\* k scopes (class, module, def, block, lambda) open has level k, and the
\* error "Expected end-of-input." has level 0.
C11_ReplLevel ==
    (pc = "parsed_repl" /\ source.family = "repl" /\ ~result.ok) =>
        /\ result.level = OpenScopes(source)
        /\ result.msg = "Expected end-of-input." => result.level = 0

C11_Witness ==
    /\ pc = "parsed_repl"
    /\ source.family = "repl"
    /\ source.kinds = <<"class", "do">>
    /\ source.closed = 1
    /\ ~result.ok
    /\ result.err = "UnexpectedEOF"
    /\ result.level = 1

\* C12 (as the specification states it): a text that ends in the middle of
\* a construct fails with UnexpectedEOF.
C12_EofInConstruct ==
    (pc \in {"parsed", "parsed_repl"} /\ source.family = "eof") =>
        ~result.ok /\ result.err = "UnexpectedEOF"

\* What holds of C12: but for the interpolated string, every such text
\* fails with UnexpectedEOF.
C12_EofOutsideStrings ==
    (pc \in {"parsed", "parsed_repl"} /\ source.family = "eof"
       /\ source.construct \notin {"string", "string_expr"}) =>
        ~result.ok /\ result.err = "UnexpectedEOF"

\* The node of the operand a of an expression of ExpPrograms.
OperandNode(a) ==
    CASE a = "ident" -> new_identifier(1, FALSE)
      [] a = "integer" -> new_integer(5)
      [] a = "float" -> new_float(5)

\* The negation of node, as parse_unary_minus builds it.
Negated(node) == new_binop("Mul", node, new_integer(-1))

\* C13 (as the specification states it): `a ** 2 ** 3` parses as
\* a ** (2 ** 3) and `-a ** 2` as the negation of a ** 2, for every operand
\* a, a literal included.
C13_ExponentPrecedence ==
    (pc = "parsed" /\ source.family = "exp") =>
        /\ result.ok
        /\ result.node.nodes[1] =
              IF source.form = "chain"
              THEN new_binop("Exp", OperandNode(source.operand),
                             new_binop("Exp", new_integer(2), new_integer(3)))
              ELSE Negated(new_binop("Exp", OperandNode(source.operand), new_integer(2)))

\* What holds of C13: `**` is right-associative, and `-a ** 2` is the
\* negation of a ** 2 when a is no literal.
C13_ExponentOfNonLiteral ==
    (pc = "parsed" /\ source.family = "exp"
       /\ (source.form = "chain" \/ source.operand = "ident")) =>
        /\ result.ok
        /\ result.node.nodes[1] =
              IF source.form = "chain"
              THEN new_binop("Exp", OperandNode(source.operand),
                             new_binop("Exp", new_integer(2), new_integer(3)))
              ELSE Negated(new_binop("Exp", OperandNode(source.operand), new_integer(2)))

\* The node is a completed call of the method named name with n arguments.
IsCommandCall(node, name, n) ==
    /\ node.kind = "Send"
    /\ node.completed
    /\ node.method = IdentIndex(result.ident_table, name)
    /\ Len(node.args) + Len(node.kw_args) = n

\* C14 (as the specification states it): an operation followed on its line
\* by an argument starter is a completed call whose arguments are the list
\* that follows; `f -1` is the call of f with the argument -1.
C14_CommandCall ==
    (pc = "parsed" /\ source.family = "command") =>
        /\ result.ok
        /\ IsCommandCall(result.node.nodes[1], "f", IF source.more THEN 2 ELSE 1)
        /\ source.starter = "minus" => result.node.nodes[1].args[1] = new_integer(-1)

\* The starters after which the operation is taken as a command call: the
\* others are consumed before parse_expr asks is_command (`-` and `+` by the
\* additive level, `(` and `{` by parse_function as a parenthesized list and
\* a block, `[` after a Send by parse_function as an index).
CommandStarters(operation) ==
    Starters \ ({"minus", "plus", "paren", "brace"}
                 \cup (IF operation = "send" THEN {"bracket"} ELSE {}))

\* C14 (for the starters that reach is_command): the result is a completed
\* call of f with the listed arguments.
C14_CommandCallReached ==
    (pc = "parsed" /\ source.family = "command"
       /\ source.starter \in CommandStarters(source.operation)) =>
        /\ result.ok
        /\ IsCommandCall(result.node.nodes[1], "f", IF source.more THEN 2 ELSE 1)

\* The call statement of a keyword-argument program.
KwCall == result.node.nodes[Len(result.node.nodes)]

\* The keyword arguments the program writes, as parse_args records them.
KwExpected ==
    <<<<IdentIndex(result.ident_table, "k"), new_integer(2)>>>>
    \o (IF source.keys = 2 THEN <<<<IdentIndex(result.ident_table, "m"), new_integer(3)>>>>
        ELSE << >>)

KwRecorded ==
    /\ result.ok
    /\ KwCall.kind = "Send"
    /\ KwCall.method = IdentIndex(result.ident_table, "f")
    /\ KwCall.args = (IF source.lead = 1 THEN <<new_integer(1)>> ELSE << >>)
    /\ KwCall.kw_args = KwExpected

\* C15 (as the specification states it): in a command call as in a
\* parenthesized one, every `identifier : expression` argument, the first
\* included, is a kw_args entry and not a positional argument.
C15_KeywordArgs ==
    (pc = "parsed" /\ source.family = "kwarg") => KwRecorded

\* C15 (parenthesized calls, and command calls whose first argument is
\* positional): the keyword arguments are recorded.
C15_KeywordArgsAfterFirst ==
    (pc = "parsed" /\ source.family = "kwarg"
       /\ (source.call = "paren" \/ source.lead = 1)) => KwRecorded

\* The node of the interpolated string "n#{7}m".
NestedNode ==
    new_interporated_string(
        <<new_string("n"), new_comp_stmt(<<new_integer(7)>>), new_string("m")>>)

\* The node of an embedded expression.
EmbeddedNode(e) ==
    LET x == new_identifier(IdentIndex(result.ident_table, "x"), FALSE)
    IN  CASE e = "ident" -> x
          [] e = "integer" -> new_integer(1)
          [] e = "nested" -> NestedNode
          [] e = "concat" -> new_binop("Add", x, NestedNode)

\* The children of the node are the chunks and the embedded expressions of
\* exprs (each the statement list parse_comp_stmt returns), alternating.
Alternating(node, exprs) ==
    /\ node.kind = "InterporatedString"
    /\ Len(node.nodes) = 2 * Len(exprs) + 1
    /\ \A i \in 1..(Len(exprs) + 1) : node.nodes[2 * i - 1] = new_string(Chunks[i])
    /\ \A i \in 1..Len(exprs) :
           node.nodes[2 * i] = new_comp_stmt(<<EmbeddedNode(exprs[i])>>)

\* C16 (as the specification states it): the children of an
\* InterpolatedString node are its chunks and embedded expressions in source
\* order, alternating, and an embedded interpolated string is a child.
C16_InterpolatedChildren ==
    (pc = "parsed" /\ source.family = "interp") =>
        /\ result.ok
        /\ Alternating(result.node.nodes[1], source.exprs)

\* C16 (no embedded expression begins with an interpolated string): the
\* children alternate chunks and expressions in source order.
C16_InterpolatedChildrenKept ==
    (pc = "parsed" /\ source.family = "interp"
       /\ \A i \in 1..Len(source.exprs) : source.exprs[i] # "nested") =>
        /\ result.ok
        /\ Alternating(result.node.nodes[1], source.exprs)

\* The instruction table of the specification: the pure-stack opcodes
\* (arithmetic other than add/mul, comparison, return, pop, dup, to_s,
\* concat, splat, create_range/regexp), ...
PureStackOps ==
    {SUB, DIV, REM, POW, SHR, SHL, BIT_OR, BIT_AND, BIT_XOR, BIT_NOT, NOT,
     EQ, NE, TEQ, GT, GE, RETURN, POP, DUP, TO_S, CONCAT_STRING, SPLAT,
     CREATE_RANGE, CREATE_REGEXP}

\* ... the opcodes with a 32-bit operand, ...
OperandOps ==
    {PUSH_STRING, PUSH_SYMBOL, GET_CONST, SET_CONST, GET_INSTANCE_VAR,
     SET_INSTANCE_VAR, GET_GLOBAL_VAR, SET_GLOBAL_VAR, GET_ARRAY_ELEM,
     SET_ARRAY_ELEM, CREATE_ARRAY, CREATE_PROC, CREATE_HASH, JMP, JMP_IF_FALSE,
     Inst_TAKE, ADD, MUL}

\* ... and those with a 64-bit immediate or a frame and a slot.
WideOps == {PUSH_FIXNUM, PUSH_FLONUM, SET_LOCAL, GET_LOCAL}

\* The sizes are those of the table for the opcodes of ops.
TableSizes(ops) ==
    (pc = "returned" /\ source.builtin = "inst_size" /\ source.inst \in ops) =>
        /\ source.inst \in PureStackOps => result.val = 1
        /\ source.inst \in OperandOps => result.val = 5
        /\ source.inst \in WideOps => result.val = 9
        /\ source.inst = DEF_CLASS => result.val = 10
        /\ source.inst = OPT_CASE => result.val = 13
        /\ source.inst \in {SEND, SEND_SELF} => result.val = 21

\* C17 (as the specification states it): inst_size returns for every
\* defined opcode the size the instruction table gives, 1 for the pure-stack
\* opcodes, dup among them.
C17_InstSizeTable == TableSizes(Opcodes)

\* C17 (every opcode but DUP): inst_size returns the size of the table.
C17_InstSizeTableButDup == TableSizes(Opcodes \ {DUP})

\* The call is made on a range of two fixnums.
OnFixnumRange(builtin) ==
    /\ pc = "returned"
    /\ source.builtin = builtin
    /\ source.self_value.start.tag = "Fixnum"
    /\ source.self_value.end.tag = "Fixnum"

\* The integers of the range of the call, ascending: a, ..., b, without b
\* for `...'.
RangeIntegers ==
    LET a == source.self_value.start.v
        b == source.self_value.end.v
        n == IF source.self_value.exclude THEN b - a ELSE b - a + 1
    IN  [k \in 1..(IF n > 0 THEN n ELSE 0) |-> a + k - 1]

FixnumsOf(ints) == [k \in DOMAIN ints |-> Value_fixnum(ints[k])]

\* C18: to_a on a..b is the array a, a+1, ..., b (length b-a+1) when
\* a <= b and the empty array otherwise; on a...b it is a, ..., b-1, empty
\* when a >= b.
C18_RangeToA ==
    OnFixnumRange("to_a") =>
        /\ result.ok
        /\ result.val = Value_array_from(FixnumsOf(RangeIntegers))
        /\ Len(result.val.elements) =
               (LET a == source.self_value.start.v
                    b == source.self_value.end.v
                IN  IF source.self_value.exclude
                    THEN (IF a >= b THEN 0 ELSE b - a)
                    ELSE (IF a <= b THEN b - a + 1 ELSE 0))

\* to_a has returned the three integers of an exclusive range.
C18_Witness ==
    /\ OnFixnumRange("to_a")
    /\ source.self_value.exclude
    /\ result.ok
    /\ Len(result.val.elements) = 3

\* The invocations of block m, one for each integer of ints in order.
Invocations(m, ints) ==
    [k \in DOMAIN ints |-> [block |-> m, args |-> <<Value_fixnum(ints[k])>>]]

\* The values block m returns for the integers of ints.
BlockValues(m, ints) ==
    [k \in DOMAIN ints |->
        BlockBody(m, Args_new1(Value_nil, NoMethod, Value_fixnum(ints[k]))).val]

IsPrefix(s, t) == Len(s) <= Len(t) /\ s = SubSeq(t, 1, Len(s))

\* each or map was called with a block on a range of two fixnums.
IteratedWithBlock ==
    /\ (OnFixnumRange("each") \/ OnFixnumRange("map"))
    /\ source.block # NoMethod

BaseYield ==
    LET e == source.self_value
        method == get_method(last.before, e.base, e.method)
    IN  IF ~method.ok THEN method
        ELSE eval_send(last.before, method.val,
                       [e.args EXCEPT !.block = SomeMethod(PlaceholderBlock)])

\* with_index was called with a block on an enumerator whose base method
\* yields an array.
YieldsArray ==
    /\ pc = "returned"
    /\ source.builtin = "with_index"
    /\ source.block # NoMethod
    /\ BaseYield.ok
    /\ BaseYield.val.tag = "Array"

\* The invocations of block m with (ek, k), k from 0, in element order.
IndexedInvocations(m, elements) ==
    [k \in DOMAIN elements |-> [block |-> m, args |-> <<elements[k], Value_fixnum(k - 1)>>]]

IndexedValues(m, elements) ==
    [k \in DOMAIN elements |->
        BlockBody(m, Args_new(Value_nil, NoMethod, <<elements[k], Value_fixnum(k - 1)>>)).val]

\* The block is invoked once for each element with (ek, k), in order, and
\* the call, when it returns, returns the array of the block's values.
InvokedWithIndex ==
    LET elements == BaseYield.val.elements
        m == source.block[1]
    IN  /\ IsPrefix(vm.calls, IndexedInvocations(m, elements))
        /\ result.ok =>
              /\ vm.calls = IndexedInvocations(m, elements)
              /\ result.val = Value_array_from(IndexedValues(m, elements))

\* Without a block with_index returns a new Enumerator and invokes nothing.
EnumeratorReturned ==
    (pc = "returned" /\ source.builtin = "with_index" /\ source.block = NoMethod) =>
        /\ result.ok
        /\ result.val = Value_enumerator(source.self_value, "with_index",
                                         Args_new0(source.self_value, NoMethod))
        /\ vm = last.before

\* C20 (as the specification states it): with a block, with_index invokes
\* it n times, the k-th time with (ek, k), and returns the array of the n
\* results; without a block it returns a new Enumerator and invokes nothing.
C20_WithIndexAnyBlock ==
    /\ YieldsArray => InvokedWithIndex
    /\ EnumeratorReturned

\* C20 (amended): the same for every block but the placeholder
\* MethodRef::from(0), the block with_index itself hands to the base method:
\* called with it, with_index invokes nothing and returns the array of the
\* pairs [ek, k].
C20_WithIndex ==
    /\ (YieldsArray /\ source.block # SomeMethod(PlaceholderBlock)) => InvokedWithIndex
    /\ (YieldsArray /\ source.block = SomeMethod(PlaceholderBlock)) =>
           /\ result.ok
           /\ result.val = Value_array_from(index_pairs(BaseYield.val.elements, 1))
           /\ vm.calls = << >>
    /\ EnumeratorReturned

\* with_index has returned the results of two invocations of {|x, i| [x, i]}.
C20_Witness ==
    /\ YieldsArray
    /\ source.block = SomeMethod(2)
    /\ result.ok
    /\ Len(vm.calls) = 2
    /\ result.val.elements[2].elements[2] = Value_fixnum(1)

\* The integers of a range of fixnums, ascending.
IntegersOf(range) ==
    LET n == range.end.v - range.start.v + (IF range.exclude THEN 0 ELSE 1)
    IN  [k \in 1..(IF n > 0 THEN n ELSE 0) |-> range.start.v + k - 1]

IsFixnumRange(val) ==
    val.tag = "Range" /\ val.start.tag = "Fixnum" /\ val.end.tag = "Fixnum"

\* An iterating builtin was called with a block of the program, on a
\* receiver it can iterate.
Iterating ==
    /\ pc = "returned"
    /\ source.builtin \in {"each", "map", "times", "with_index", "enum_each"}
    /\ source.block \notin {NoMethod, SomeMethod(PlaceholderBlock)}
    /\ CASE source.builtin \in {"each", "map"} -> IsFixnumRange(source.self_value)
         [] source.builtin = "times" -> TRUE
         [] source.builtin = "with_index" -> YieldsArray
         [] source.builtin = "enum_each" -> IsFixnumRange(source.self_value.base)

\* The arguments of the invocations the call makes when none raises.
IterationArgs ==
    CASE source.builtin \in {"each", "map"} ->
           [k \in DOMAIN IntegersOf(source.self_value) |->
               <<Value_fixnum(IntegersOf(source.self_value)[k])>>]
      [] source.builtin = "times" ->
           [k \in 1..(IF source.self_value.v > 0 THEN source.self_value.v ELSE 0) |->
               <<Value_fixnum(k - 1)>>]
      [] source.builtin = "with_index" ->
           [k \in DOMAIN BaseYield.val.elements |->
               <<BaseYield.val.elements[k], Value_fixnum(k - 1)>>]
      [] source.builtin = "enum_each" ->
           [k \in DOMAIN IntegersOf(source.self_value.base) |->
               <<Value_fixnum(IntegersOf(source.self_value.base)[k])>>]

\* What the block of the call does on its k-th invocation.
KthBody(k) == BlockBody(source.block[1], Args_new(Value_nil, NoMethod, IterationArgs[k]))

\* The invocations on which the block raises.
Raising == {k \in DOMAIN IterationArgs : ~KthBody(k).ok}

FirstRaising == CHOOSE k \in Raising : \A j \in Raising : k <= j

\* C21: when the block raises on its k-th invocation the builtin returns
\* that error unchanged and no value, and the k-th invocation is the last.
C21_BlockErrorSurfaces ==
    (Iterating /\ Raising # {}) =>
        /\ result = [ok |-> FALSE, err |-> KthBody(FirstRaising).err, msg |-> ""]
        /\ vm.calls = [k \in 1..FirstRaising |->
                          [block |-> source.block[1], args |-> IterationArgs[k]]]

\* Integer#times has returned the error its block raised on the third
\* invocation.
C21_Witness ==
    /\ Iterating
    /\ source.builtin = "times"
    /\ Raising # {}
    /\ Len(vm.calls) = 3
    /\ ~result.ok

\* A line of the session has been parsed.
LineParsed == last.op = "parse_program_repl" /\ result.ok

\* The identifier the line reads: the argument of `f(v)' or the statement
\* `v'.
LineRead ==
    IF source.line.form = "call" THEN result.node.nodes[1].args[1]
    ELSE result.node.nodes[1]

\* What the claim says of the line just parsed: every name keeps the LvarId
\* it was first given, a name assigned on an earlier line reads as a local
\* variable, a new local gets the next unused id, and the collector
\* returned holds every entry of the collector passed in.
SessionKept ==
    /\ \A n \in Names :
          last.given[n] # None => LvarOf(last.ident_table, collector, n) = last.given[n]
    /\ (source.line.form # "assign" /\ source.line.v \in last.assigned) =>
           LineRead.kind = "LocalVar"
    /\ collector.id \in {last.before.id, last.before.id + 1}
    /\ \A k \in DOMAIN collector.table :
          ~contains_key(last.before.table, k) =>
              /\ collector.table[k] = last.before.id
              /\ collector.id = last.before.id + 1
    /\ \A k \in DOMAIN last.before.table :
          contains_key(collector.table, k) /\ collector.table[k] = last.before.table[k]

\* C22 (as the specification states it): across successful calls of
\* parse_program_repl, each given the LvarCollector the one before returned.
C22_ReplSessionCollectorOnly == LineParsed => SessionKept

\* C22 (amended): across successful calls each given the LvarCollector and,
\* in its parser, the ident_table the one before returned.
C22_ReplSession == (LineParsed /\ last.carried) => SessionKept

\* The third line reads as a local the name the second line assigned, the
\* second local of the session.
C22_Witness ==
    /\ LineParsed
    /\ last.carried
    /\ last.lines = 3
    /\ source.line.form = "call"
    /\ LineRead.kind = "LocalVar"
    /\ last.given[source.line.v] = 1

\* parse_program or parse_program_repl has returned, Ok or Err.
Returned == pc \in {"parsed", "parsed_repl"}

\* The token at cursor c of the program, line terminators skipped, and the
\* one after it.
TokenAt(c) == peek([result.p EXCEPT !.cursor = c])

TokenAfter(c) == peek(get([result.p EXCEPT !.cursor = c]).p)

\* The state is restored at a `-' before a numeric literal or at a token
\* that can be a hash key and has no `:' after it.
RestoredForLookahead(c) ==
    \/ /\ IsPunct(TokenAt(c), "Minus")
       /\ TokenAfter(c).k \in {"NumLit", "FloatLit"}
    \/ /\ can_be_symbol(TokenAt(c))
       /\ ~IsPunct(TokenAfter(c), "Colon")

\* C23: every save_state is followed at once by one restore_state or
\* discard_state, state_save never holds more than one entry and is empty
\* when the parse returns, restore_state puts cursor and prev_cursor back to
\* their values at the save_state, and it does so only for `-NUM' and for
\* the lookahead at a hash key.
C23_SaveRestoreBalanced ==
    Returned =>
        LET log == result.p.state_log
        IN  /\ result.p.state_save = << >>
            /\ \A i \in DOMAIN log :
                  /\ log[i].depth <= 1
                  /\ log[i].op = "save" =>
                         /\ i < Len(log)
                         /\ log[i + 1].op \in {"restore", "discard"}
                  /\ log[i].op # "save" => i > 1 /\ log[i - 1].op = "save"
                  /\ log[i].op = "restore" =>
                         /\ log[i].cursor = log[i - 1].cursor
                         /\ log[i].prev_cursor = log[i - 1].prev_cursor
                         /\ RestoredForLookahead(log[i].cursor)

\* The parse of `x = {a => 1, b: -2}' has restored the state at the key a
\* and at `-2' and discarded it at the key b.
C23_Witness ==
    /\ pc = "parsed"
    /\ source.family = "look" /\ source.form = "hash_mixed"
    /\ result.ok
    /\ Cardinality({i \in DOMAIN result.p.state_log :
                       result.p.state_log[i].op = "restore"}) = 2
    /\ \E i \in DOMAIN result.p.state_log :
          /\ result.p.state_log[i].op = "discard"
          /\ result.p.state_log[i].cursor > result.p.state_log[i - 1].cursor

\* The comparison the program holds: Eq, Ne or TEq of 1 and b.
Comparison(node) ==
    /\ node.kind = "BinOp"
    /\ node.op = source.ops[1]
    /\ node.lhs = new_integer(1)
    /\ node.rhs.kind \in {"Ident", "Send"}

\* The expression of the program, taken out of the place it stands in.
EqExpr ==
    LET stmt == result.node.nodes[1]
    IN  CASE source.place \in {"stmt", "newline"} -> stmt
          [] source.place = "paren" -> stmt.nodes[1]
          [] source.place = "assign" -> stmt.mrhs[1]
          [] source.place = "arg" -> stmt.args[1]
          [] source.place = "interp" -> stmt.nodes[2].nodes[1]

\* C24: an expression with two equality operators at the same level is
\* rejected with a syntax error, one with a single equality operator is
\* accepted as that comparison.
C24_EqualityNonAssociative ==
    (pc = "parsed" /\ source.family = "eq") =>
        IF Len(source.ops) = 2
        THEN ~result.ok /\ result.err = "SyntaxError"
        ELSE result.ok /\ Comparison(EqExpr)

\* `x = 1 == b != 3' has been refused where the second operator stands.
C24_Witness ==
    /\ pc = "parsed"
    /\ source.family = "eq" /\ source.place = "assign"
    /\ source.ops = <<"Eq", "Ne">>
    /\ ~result.ok
    /\ result.msg = "Expected end-of-input."

\* C25: parse_program returns, Ok or Err, after finitely many steps: no
\* loop of the parser repeats an iteration that consumes no token.
C25_ParseTerminates ==
    (Returned /\ ~result.ok) => result.err # "Diverge"

\* The loops terminate on the programs that hold no string with a
\* statement-ending token in its embedded code.
C25_ParseTerminatesElsewhere ==
    (Returned /\ source.family # "closer" /\ ~result.ok) => result.err # "Diverge"

\* The node that holds the scope of a statement: the block of a call, or
\* the declaration or lambda itself.
ScopeNode(node) == IF node.kind = "Send" THEN node.block ELSE node

\* The LvarCollectors of the nested scopes of a statement, outermost first.
FrameLvars(node, depth) ==
    IF depth = 1 THEN <<ScopeNode(node).lvar>>
    ELSE <<ScopeNode(node).lvar, ScopeNode(ScopeNode(node).body.nodes[1]).lvar>>

\* C26: a program whose scopes parse leaves the scope stack empty; every
\* scope has pushed and popped one frame of its own (the innermost holds
\* the x assigned in it, the one around it holds nothing); the collector
\* returned is the top-level frame's (y when `y = 1' stands at the top
\* level, never x); x is no local after the scopes have closed (g(x) has an
\* identifier as its argument); and where the parse fails the stack holds
\* the top-level frame at least.
C26_ScopeStackBalance ==
    (pc = "parsed" /\ source.family = "scoped") =>
        LET n == Len(source.kinds)
            x == IdentIndex(result.ident_table, "x")
            y == IdentIndex(result.ident_table, "y")
            at == IF source.top THEN 2 ELSE 1
        IN  IF result.ok
            THEN /\ result.p.context_stack = << >>
                 /\ DOMAIN result.lvar_collector.table = (IF source.top THEN {y} ELSE {})
                 /\ LET lvars == FrameLvars(result.node.nodes[at], n)
                    IN  /\ DOMAIN lvars[n].table = {x}
                        /\ n = 2 => DOMAIN lvars[1].table = {}
                 /\ result.node.nodes[at + 1].args[1] = new_identifier(x, FALSE)
            ELSE /\ RefusedScopes(source.kinds) # {}
                 /\ Len(result.p.context_stack) >= 1

\* `y = 1; f do -> { x = 1 } end; g(x)' has parsed.
C26_Witness ==
    /\ pc = "parsed"
    /\ source.family = "scoped" /\ source.top
    /\ source.kinds = <<"do", "lambda">>
    /\ result.ok
    /\ result.p.context_stack = << >>
    /\ result.lvar_collector.id = 1

\* A statement that opens one scope, parsed on any scope stack, leaves the
\* stack as it found it: the frame it popped, kept in its node, is the one
\* it pushed (x in it unless the scope is a block and x was visible), and x
\* is visible after it only if it was before.  A failed statement leaves
\* no fewer frames than it found.
C26_ConstructBalanced ==
    /\ Len(context_stack) >= 1
    /\ last.op = "construct" =>
          /\ Len(context_stack) >= Len(last.before)
          /\ last.ok =>
                /\ context_stack = last.before
                /\ DOMAIN ScopeNode(last.node).lvar.table =
                       (IF /\ last.kind \in {"do", "lambda"}
                           /\ is_local_var(last.before, ScopeId("x"))
                        THEN {} ELSE {ScopeId("x")})
          /\ ~last.ok => /\ last.kind = "class"
                         /\ context_last(last.before).kind = "Method"

\* C27: the unreachable!() of parse_primary is never executed: no parse
\* ends in its panic.
C27_UnreachableNeverRun ==
    (Returned /\ ~result.ok) => ~(result.err = "Panic" /\ result.msg = "unreachable")

\* The unreachable!() is not executed on the programs whose every `-' is
\* met by parse_unary_minus or stands before a number.
C27_UnreachableFromUnaryMinus ==
    (Returned /\ ~(source.family = "minus" /\ source.operand = "ident") /\ ~result.ok) =>
        result.err # "Panic"

\* The `class` or `module` keywords of kinds that lie in the body of a
\* `def`, directly or inside blocks and lambdas.
InMethodBody(kinds) ==
    {i \in 2..Len(kinds) :
        /\ kinds[i] \in {"class", "module"}
        /\ \E j \in 1..(i - 1) : kinds[j] = "def"}

\* C28: a class or module declaration is rejected with 'class definition in
\* method body' when it lies in a method body, also inside a block or a
\* lambda of that method, and is accepted elsewhere.
C28_NoClassInMethod ==
    (pc = "parsed" /\ source.family \in {"nest", "deep"}) =>
        IF InMethodBody(source.kinds) # {}
        THEN /\ ~result.ok
             /\ result.msg = "SyntaxError: class definition in method body."
        ELSE result.ok

\* The declaration is rejected when the innermost scope around it is a def,
\* and accepted elsewhere.
C28_NoClassDirectlyInMethod ==
    (pc = "parsed" /\ source.family \in {"nest", "deep"}) =>
        IF RefusedScopes(source.kinds) # {}
        THEN /\ ~result.ok
             /\ result.msg = "SyntaxError: class definition in method body."
        ELSE result.ok

\* The IdentId of a name of the program.
RhsId(name) == IdentIndex(result.p.ident_table, name)

\* The identifier name as a method call (not a local).
NotLocal(name) == new_identifier(RhsId(name), FALSE)

SizedCall ==
    /\ pc = "returned"
    /\ source.builtin \in {"first", "last"}
    /\ IsFixnumRange(source.self_value)
    /\ Len(source.args) = 1
    /\ source.args[1].tag = "Fixnum"

\* The first n and the last n elements of the sequence s (all of s when n
\* is its length or more).
FirstOf(s, n) == SubSeq(s, 1, IF n < Len(s) THEN n ELSE Len(s))

LastOf(s, n) == SubSeq(s, (IF n < Len(s) THEN Len(s) - n ELSE 0) + 1, Len(s))

\* What first(n) and last(n) are to return on the range of the call.
Expected ==
    LET elements == FixnumsOf(IntegersOf(source.self_value))
        n == source.args[1].v
    IN  Value_array_from(IF source.builtin = "first" THEN FirstOf(elements, n)
                         ELSE LastOf(elements, n))

\* C30: first(n) and last(n) return the first and the last min(n, size)
\* elements for every n >= 0 and ArgumentError 'Negative array size' for
\* n < 0; without an argument first returns the start and last the end.
C30_FirstLast ==
    /\ SizedCall =>
          IF source.args[1].v < 0
          THEN /\ ~result.ok
               /\ result.err = "ArgumentError" /\ result.msg = "Negative array size"
          ELSE result.ok /\ result.val = Expected
    /\ (/\ pc = "returned" /\ source.builtin \in {"first", "last"}
        /\ IsFixnumRange(source.self_value) /\ source.args = << >>) =>
          /\ result.ok
          /\ result.val = (IF source.builtin = "first" THEN source.self_value.start
                           ELSE source.self_value.end)

\* The bounds `start + n - 1' of first and `end - n + 1' of last leave the
\* machine integers.
Overflows ==
    LET range == source.self_value
        n == source.args[1].v
        end == range.end.v - (IF range.exclude THEN 1 ELSE 0)
    IN  IF source.builtin = "first" THEN range.start.v + n > MaxInt
        ELSE end - n < MinInt \/ end - n + 1 > MaxInt

\* first(n) and last(n) return what C30 says whenever the bounds fit.
C30_FirstLastWithinBounds ==
    (SizedCall /\ ~Overflows) =>
        IF source.args[1].v < 0
        THEN /\ ~result.ok
             /\ result.err = "ArgumentError" /\ result.msg = "Negative array size"
        ELSE result.ok /\ result.val = Expected

====
